---- MODULE Spec2Model ----
(***************************************************************************)
(* Model of the GoToSocial worker pipeline: the two dispatchers            *)
(* (ProcessFromFediAPI, ProcessFromClientAPI), their handlers, the         *)
(* Surface notification functions and the keyed-lock protocol of           *)
(* Surface.Notify, and the queue purges of the Delete handlers.            *)
(*                                                                         *)
(* A handler is modelled as the sequence of calls it makes into its        *)
(* collaborators (storage, queues, timelines, federator, surface), each    *)
(* call with what the handler does when the call returns an error: return  *)
(* the error ("abort"), log it and go on ("log"), or log it and leave the  *)
(* surrounding Surface function ("skip").  A worker executes the sequence  *)
(* one call at a time; every fallible call succeeds or fails               *)
(* nondeterministically.                                                   *)
(***************************************************************************)
EXTENDS Integers, Sequences, FiniteSets, TLC

VARIABLES
    pc,        \* pc[w]: position of worker w
    env,       \* env[w]: the message (or direct call) worker w is processing
    steps,     \* steps[w]: the calls the running handler has still to make
    effects,   \* effects[w]: the calls the running handler has made, in order
    hret,      \* hret[w]: the value the handler returned
    result,    \* result[w]: the value the dispatcher (or direct call) returned
    invoked,   \* invoked[w]: the handlers the dispatcher invoked, in order
    prev,      \* prev[w]: prevNotif.ID of a running notifyFollow (0: nil)
    held,      \* held[w]: the ProcessingLocks key worker w holds ("": none)
    made,      \* made[w]: ID of the notification a running Notify built (0: none)
    notifs,    \* the stored notifications
    nextID,    \* the next id.NewULID()
    stream,    \* the notifications pushed to Stream.Notify, in order
    queues,    \* queues[q]: the items pending in worker queue q
    inflight,  \* inflight[w]: the queue item worker w has popped and is running
    wiped,     \* URIs of the statuses and accounts that have been deleted
    calls,     \* number of messages and calls started so far
    cancelled, \* cancelled[w]: 0 while the handler's ctx is live, else the
               \* ordinal of the first call made after ctx was cancelled
    statuses,  \* URIs of the remote statuses inserted into storage
    prepared,  \* <<timeline, status ID>> of the items that have a prepared
               \* (cached) representation in a timeline
    follows,   \* follows[<<origin, target>>]: "none", "pending" (a follow
               \* request) or "accepted" (a follow), as stored
    stats,     \* stats[counter][account]: the account's stored counters
    cache      \* the struct caches: the heap of model objects, the address each
               \* cache stores, and the addresses callers hold

vars == <<pc, env, steps, effects, hret, result, invoked, prev, held, made,
          notifs, nextID, stream, queues, inflight, wiped, calls, cancelled,
          statuses, prepared, follows, stats, cache>>

\* ------------------------------------------------------------------ bounds

\* Messages and direct calls started in one run of the notification model.
MaxCalls == 3

Workers == {"w1", "w2"}

\* ---------------------------------------------------------------- accounts

Accounts == {"alice", "bob", "rem"}

\* gtsmodel.Account.Domain: empty for an account of this instance.
Domain(a) == IF a = "rem" THEN "example.org" ELSE ""

IsRemote(a) == Domain(a) # ""

IsLocal(a) == ~IsRemote(a)

AccountID(a) == "01" \o a

AccountURI(a) ==
    IF IsRemote(a) THEN "https://" \o Domain(a) \o "/users/" \o a
    ELSE "https://localhost/users/" \o a

StatusURI(s) == "https://localhost/statuses/" \o s

\* ------------------------------------------------------------ return values

Nil == [err |-> FALSE, msg |-> <<>>]

NoRet == [err |-> FALSE, msg |-> <<"(running)">>]

Err(m) == [err |-> TRUE, msg |-> m]

\* A nil dereference: the goroutine panics and the handler returns nothing.
Panic == [err |-> TRUE, msg |-> <<"panic">>]

\* ------------------------------------------------------------------- steps
\* One call of a handler.  op: the callee; arg, val: its distinguishing
\* arguments; tgt, org: the accounts of a Notify call; fail: what the caller
\* does with an error; n: how many following calls a "skip" leaves out.

Step(op, arg, val, tgt, org, fail, n) ==
    [op |-> op, arg |-> arg, val |-> val, tgt |-> tgt, org |-> org,
     fail |-> fail, n |-> n]

\* A primary call whose error would only be logged.
AbortOnlyLogs(op) == Step(op, "", "", "", "", "log", 0)

\* if err != nil { return gtserror.Newf(...) }
Abort(op) == Step(op, "", "", "", "", "abort", 0)

\* A logged call whose error would be returned instead.
LogReturnsError(op) == Step(op, "", "", "", "", "abort", 0)

\* if err != nil { log.Errorf(...) }
Log(op) == Step(op, "", "", "", "", "log", 0)

\* Inside a Surface function whose error the handler logs: the function
\* returns the error, so its n remaining calls are left out.
Skip(op, n) == Step(op, "", "", "", "", "skip", n)

\* A call with no error result.
Do(op, val) == Step(op, "", val, "", "", "never", 0)

\* A call told apart by its arguments.
Call(op, arg, val, fail) == Step(op, arg, val, "", "", fail, 0)

\* A purge that drops the items of another key.
PurgeOtherKey(q, index, key) ==
    Step("Queue.Delete", index, "", q, "", "never", 0)

\* Queue.Delete(index, key) of one of the worker queues.
Purge(q, index, key) == Step("Queue.Delete", index, key, q, "", "never", 0)

\* return gtserror.Newf(...) before any call was made.
ReturnErr(m) == Step("return", "err", m, "", "", "never", 0)

\* s.Notify(ctx, ntype, target, origin, statusID)
NotifyCall(ntype, target, origin, statusID, fail, n) ==
    Step("Notify", ntype, statusID, target, origin, fail, n)

\* A storage call whose "no entries" answer would be returned like any error.
NoEntriesFails(op, e, goOn) == Abort(op)

\* if err != nil && !errors.Is(err, db.ErrNoEntries) { return err }: with
\* "noEntries" in e.flags the storage has no row for the call and the error
\* it can give is db.ErrNoEntries, after which the function goes on
\* (goOn = "log") or returns nil (goOn = "stop"); without it the error is any
\* other one and is returned.
UnlessNoEntries(op, e, goOn) ==
    IF "noEntries" \in e.flags
    THEN Step(op, "ErrNoEntries", "", "", "", goOn, 0)
    ELSE Abort(op)

\* ------------------------------------------------------- notification store

NotificationFollow == "follow"
NotificationFollowRequest == "follow_request"
NotificationFave == "favourite"

\* A key that would carry the status segment for an empty status ID too.
getNotifyLockURIAlwaysStatus(ntype, target, origin, statusID) ==
    "notification:?"
        \o ("type=" \o ntype)
        \o ("&target=" \o AccountURI(target))
        \o ("&origin=" \o AccountURI(origin))
        \o ("&statusID=" \o statusID)

\* A key that would leave out the origin account.
getNotifyLockURINoOrigin(ntype, target, origin, statusID) ==
    "notification:?"
        \o ("type=" \o ntype)
        \o ("&target=" \o AccountURI(target))
        \o (IF statusID # "" THEN "&statusID=" \o statusID ELSE "")

\* getNotifyLockURI
getNotifyLockURI(notificationType, targetAccount, originAccount, statusID) ==
    "notification:?"
        \o ("type=" \o notificationType)
        \o ("&target=" \o AccountURI(targetAccount))
        \o ("&origin=" \o AccountURI(originAccount))
        \o (IF statusID # "" THEN "&statusID=" \o statusID ELSE "")

\* An existence check that would never find a row.
MatchingNothing(ntype, targetID, originID, statusID) == {}

\* The rows DB.GetNotification(type, targetAccountID, originAccountID,
\* statusID) selects from.
Matching(ntype, targetID, originID, statusID) ==
    {x \in notifs : /\ x.ntype = ntype
                    /\ x.target = targetID
                    /\ x.origin = originID
                    /\ x.status = statusID}

\* &gtsmodel.Notification{ID: id.NewULID(), ...}
NewNotification(s) ==
    [id |-> nextID, ntype |-> s.arg, target |-> AccountID(s.tgt),
     origin |-> AccountID(s.org), status |-> s.val]

\* ProcessingLocks.Lock(key) blocks while another holder has the key.
LockFreeBroken(key, w) == TRUE

LockFree(key, w) == \A v \in Workers \ {w} : held[v] # key

\* ------------------------------------------------------- Surface functions
\* The calls of a Surface function for message e.  f = "abort": the function
\* was called directly and its error is the caller's result; f = "skip": the
\* function runs inside a handler that logs its error.

Fallible(f, op, n) == IF f = "abort" THEN Abort(op) ELSE Skip(op, n)

\* Surface.notifyFollowRequest
notifyFollowRequest(e, f) ==
    LET notify == IF IsRemote(e.tgt) THEN <<>>
                  ELSE <<NotifyCall(NotificationFollowRequest, e.tgt, e.org, "",
                                    IF f = "abort" THEN "abort" ELSE "log", 0)>>
    IN  <<Fallible(f, "DB.PopulateFollowRequest", Len(notify))>> \o notify

\* A notifyFollow that would leave the follow-request notification in place.
notifyFollowKeepsRequest(e, f) ==
    IF IsRemote(e.tgt) THEN <<Fallible(f, "DB.PopulateFollow", 0)>>
    ELSE <<Fallible(f, "DB.PopulateFollow", 2),
           Step("DB.GetNotification", NotificationFollowRequest, "",
                e.tgt, e.org, IF f = "abort" THEN "abort" ELSE "skip", 1),
           NotifyCall(NotificationFollow, e.tgt, e.org, "",
                      IF f = "abort" THEN "abort" ELSE "log", 0)>>

\* Surface.notifyFollow
notifyFollow(e, f) ==
    LET notify == <<NotifyCall(NotificationFollow, e.tgt, e.org, "",
                               IF f = "abort" THEN "abort" ELSE "log", 0)>>
        delete == <<Step("DB.DeleteNotificationByID", "", "", e.tgt, e.org,
                         IF f = "abort" THEN "abort" ELSE "skip", 1)>>
        get    == <<Step("DB.GetNotification", NotificationFollowRequest, "",
                         e.tgt, e.org,
                         IF f = "abort" THEN "abort" ELSE "skip", 2)>>
        body   == IF IsRemote(e.tgt) THEN <<>> ELSE get \o delete \o notify
    IN  <<Fallible(f, "DB.PopulateFollow", Len(body))>> \o body

\* Surface.notifySignup(ctx, newUser): e.org is newUser.Account, e.tgt the
\* instance's moderator.  No registered moderator is not an error.
notifySignup(e) ==
    <<UnlessNoEntries("DB.GetInstanceModerators", e, "stop"),
      Abort("DB.PopulateUser"),
      Abort("DB.PopulateAccount"),
      NotifyCall("admin.sign_up", e.tgt, e.org, "", "abort", 0)>>

\* Surface.notifyFave
notifyFave(e, f) ==
    LET notify == IF "muted" \in e.flags THEN <<>>
                  ELSE <<NotifyCall(NotificationFave, e.tgt, e.org, e.st,
                                    IF f = "abort" THEN "abort" ELSE "log", 0)>>
        muted  == IF IsRemote(e.tgt) THEN <<>>
                  ELSE <<Fallible(f, "DB.IsThreadMutedByAccount", Len(notify))>>
                       \o notify
    IN  IF AccountID(e.tgt) = AccountID(e.org) THEN <<>>
        ELSE <<Fallible(f, "DB.PopulateStatusFave", Len(muted))>> \o muted

\* GetPollVotes(status.PollID): the accounts of the votes in the poll of
\* status s, in order.  S1's author has voted and one voter is remote; in
\* S2's poll one account has two votes.
PollVoters(s) == IF s = "S1" THEN <<"rem", "alice">> ELSE <<"bob", "bob">>

\* A notifyPollClose that would return at the first Notify that fails.
notifyPollCloseStopsAtFailure(e) ==
    LET local  == SelectSeq(PollVoters(e.st), LAMBDA v : IsLocal(v))
        voters == [i \in 1..Len(local) |->
                      NotifyCall("poll", local[i], e.org, e.st, "skip",
                                 Len(local) - i)]
        author == IF IsLocal(e.org)
                  THEN <<NotifyCall("poll", e.org, e.org, e.st, "skip",
                                    Len(voters))>>
                  ELSE <<>>
        body   == author \o voters
    IN  <<Skip("DB.PopulateStatus", 1 + Len(body)),
          Skip("DB.GetPollVotes", Len(body))>> \o body

\* Surface.notifyPollClose, called from UpdateStatus which logs its error
\* (e.org: the author of the status, e.st: the status).  A Notify error is
\* appended to errs and the loop goes on.
notifyPollClose(e) ==
    LET local  == SelectSeq(PollVoters(e.st), LAMBDA v : IsLocal(v))
        voters == [i \in 1..Len(local) |->
                      NotifyCall("poll", local[i], e.org, e.st, "log", 0)]
        author == IF IsLocal(e.org)
                  THEN <<NotifyCall("poll", e.org, e.org, e.st, "log", 0)>>
                  ELSE <<>>
        body   == author \o voters
    IN  <<Skip("DB.PopulateStatus", 1 + Len(body)),
          Skip("DB.GetPollVotes", Len(body))>> \o body

\* A Surface function called from a handler: its own calls when the message
\* is processed with the Surface functions spelled out (e.inline), otherwise
\* one call whose error the handler logs.
Surface(name, body, e) == IF e.inline THEN body ELSE <<Log(name)>>

\* A notifyAnnounce that would not ask whether the thread is muted.
notifyAnnounceIgnoresMute(e, f) ==
    LET notify == <<NotifyCall("reblog", e.tgt, e.org, e.st,
                               IF f = "abort" THEN "abort" ELSE "log", 0)>>
        body   == IF IsRemote(e.tgt) THEN <<>> ELSE notify
    IN  IF "boost" \notin e.flags THEN <<>>
        ELSE IF AccountID(e.tgt) = AccountID(e.org) THEN <<>>
        ELSE <<Fallible(f, "DB.PopulateStatus", Len(body))>> \o body

\* Surface.notifyAnnounce (e.tgt: the boosted status's author, e.org: the
\* booster, e.st: the boost wrapper status)
notifyAnnounce(e, f) ==
    LET notify == IF "muted" \in e.flags THEN <<>>
                  ELSE <<NotifyCall("reblog", e.tgt, e.org, e.st,
                                    IF f = "abort" THEN "abort" ELSE "log", 0)>>
        muted  == IF IsRemote(e.tgt) THEN <<>>
                  ELSE <<Fallible(f, "DB.IsThreadMutedByAccount", Len(notify))>>
                       \o notify
    IN  IF "boost" \notin e.flags THEN <<>>
        ELSE IF AccountID(e.tgt) = AccountID(e.org) THEN <<>>
        ELSE <<Fallible(f, "DB.PopulateStatus", Len(muted))>> \o muted

\* ------------------------------------------------- federation-origin handlers
\* e.org is fMsg.Requesting, e.tgt is fMsg.Receiving, e.model the dynamic type
\* of fMsg.GTSModel, e.apObject that of fMsg.APObject, e.iri whether
\* fMsg.APIRI is set.  e.flags holds what the handler reads from its model
\* and from storage.

Invalidate(statusID) == Do("surface.invalidateStatusFromTimelines", statusID)

\* The status a reply replies to, and the status a boost boosts.
ParentID(s) == "parent-of-" \o s

BoostOfID(s) == "boosted-by-" \o s

\* A cast whose result would not be checked.
CastUnchecked(e, want, rest) == rest

\* model, ok := msg.GTSModel.(*gtsmodel.T); if !ok { return error }
Cast(e, want, rest) ==
    IF e.model # want
    THEN <<ReturnErr("cannot cast " \o e.model \o " -> " \o want)>>
    ELSE rest

\* status.Mentions of the status of message e: a reply that mentions, mentions
\* its remote author's own account and the author of the status replied to.
Mentions(e) == IF "mentions" \in e.flags THEN <<e.org, e.tgt>> ELSE <<>>

\* Surface.notifyMentions: per mention PopulateMention, nothing more for a
\* remote target, IsThreadMutedByAccount, nothing more for a muted thread,
\* Notify; an error ends the mention, not the loop.
notifyMentions(e) ==
    LET notify(m) == IF "muted" \in e.flags THEN <<>>
                     ELSE <<NotifyCall("mention", m, e.org, e.st, "log", 0)>>
        muted(m)  == IF IsRemote(m) THEN <<>>
                     ELSE <<Skip("DB.IsThreadMutedByAccount", Len(notify(m)))>>
                          \o notify(m)
        one(m)    == <<Skip("DB.PopulateMention", Len(muted(m)))>> \o muted(m)
        all[i \in 0..Len(Mentions(e))] ==
            IF i = 0 THEN <<>> ELSE all[i - 1] \o one(Mentions(e)[i])
    IN  all[Len(Mentions(e))]

\* Surface.timelineAndNotifyStatus: the status is timelined, then its
\* mentions are notified; the first error is returned.
timelineAndNotifyStatus(e) ==
    <<Skip("surface.timelineStatus", Len(notifyMentions(e)))>>
    \o notifyMentions(e)

\* A CreateStatus that would return the error of the counter update.
fediCreateStatusReturnsCounterError(e) ==
    LET rest == IF "raced" \in e.flags THEN <<>>
                ELSE <<Abort("utils.incrementStatusesCount")>>
                     \o (IF "reply" \in e.flags
                         THEN <<Invalidate(ParentID(e.st))>> ELSE <<>>)
                     \o Surface("surface.timelineAndNotifyStatus",
                                timelineAndNotifyStatus(e), e)
    IN  IF e.apObject # "nil"
        THEN IF e.apObject # "Statusable"
             THEN <<ReturnErr("cannot cast " \o e.apObject \o " -> ap.Statusable")>>
             ELSE <<Abort("federate.RefreshStatus")>> \o rest
        ELSE IF e.iri
             THEN <<Abort("federate.GetStatusByURI")>> \o rest
             ELSE <<ReturnErr("neither APObjectModel nor APIri set")>>

\* A CreateStatus that would go on after a nil statusable.
fediCreateStatusIgnoresRace(e) ==
    LET rest == <<Log("utils.incrementStatusesCount")>>
                \o (IF "reply" \in e.flags
                    THEN <<Invalidate(ParentID(e.st))>> ELSE <<>>)
                \o <<Log("surface.timelineAndNotifyStatus")>>
    IN  IF e.apObject # "nil"
        THEN IF e.apObject # "Statusable"
             THEN <<ReturnErr("cannot cast " \o e.apObject \o " -> ap.Statusable")>>
             ELSE <<Abort("federate.RefreshStatus")>> \o rest
        ELSE IF e.iri
             THEN <<Abort("federate.GetStatusByURI")>> \o rest
             ELSE <<ReturnErr("neither APObjectModel nor APIri set")>>

\* "raced": the dereferencer returned a nil statusable and no error.
fediCreateStatus(e) ==
    LET rest == IF "raced" \in e.flags THEN <<>>
                ELSE <<Log("utils.incrementStatusesCount")>>
                     \o (IF "reply" \in e.flags
                         THEN <<Invalidate(ParentID(e.st))>> ELSE <<>>)
                     \o Surface("surface.timelineAndNotifyStatus",
                                timelineAndNotifyStatus(e), e)
    IN  IF e.apObject # "nil"
        THEN IF e.apObject # "Statusable"
             THEN <<ReturnErr("cannot cast " \o e.apObject \o " -> ap.Statusable")>>
             ELSE <<Abort("federate.RefreshStatus")>> \o rest
        ELSE IF e.iri
             THEN <<Abort("federate.GetStatusByURI")>> \o rest
             ELSE <<ReturnErr("neither APObjectModel nor APIri set")>>

fediCreatePollVote(e) ==
    Cast(e, "PollVote",
         <<Abort("DB.PutPollVote"),
           Abort("DB.PopulatePollVote"),
           Abort("DB.PopulatePoll"),
           Invalidate(e.st)>>
         \o (IF "local" \in e.flags
             THEN <<Log("federate.UpdateStatus")>> ELSE <<>>))

\* A CreateFollowReq that would accept the request of a locked account too.
fediCreateFollowReqAlwaysAccepts(e) ==
    Cast(e, "FollowRequest",
         <<Abort("DB.PopulateFollowRequest"),
           Abort("DB.AcceptFollowRequest"),
           Call("utils.incrementFollowersCount", "Receiving", "", "log"),
           Call("utils.incrementFollowingCount", "Requesting", "", "log"),
           Log("federate.AcceptFollow")>>
         \o Surface("surface.notifyFollow", notifyFollow(e, "skip"), e))

fediCreateFollowReq(e) ==
    Cast(e, "FollowRequest",
         <<Abort("DB.PopulateFollowRequest")>>
         \o (IF "locked" \in e.flags
             THEN Surface("surface.notifyFollowRequest",
                          notifyFollowRequest(e, "skip"), e)
                  \o <<Call("utils.incrementFollowRequestsCount", "Receiving",
                            "", "log")>>
             ELSE <<Abort("DB.AcceptFollowRequest"),
                    Call("utils.incrementFollowersCount", "Receiving", "", "log"),
                    Call("utils.incrementFollowingCount", "Requesting", "", "log"),
                    Log("federate.AcceptFollow")>>
                  \o Surface("surface.notifyFollow", notifyFollow(e, "skip"), e)))

\* A CreateLike that would return notifyFave's error.
fediCreateLikeReturnsNotifyError(e) ==
    Cast(e, "StatusFave",
         <<Abort("DB.PopulateStatusFave"), Abort("surface.notifyFave"),
           Invalidate(e.st)>>)

fediCreateLike(e) ==
    Cast(e, "StatusFave",
         <<Abort("DB.PopulateStatusFave")>>
         \o Surface("surface.notifyFave", notifyFave(e, "skip"), e)
         \o <<Invalidate(e.st)>>)

\* EnrichAnnounce's error is either "unretrievable" (return nil) or returned.
fediCreateAnnounce(e) ==
    Cast(e, "Status",
         <<Call("federate.EnrichAnnounce", "", "",
                IF "unretrievable" \in e.flags THEN "stop" ELSE "abort"),
           Log("utils.incrementStatusesCount"),
           Log("surface.timelineAndNotifyStatus")>>
         \o Surface("surface.notifyAnnounce", notifyAnnounce(e, "skip"), e)
         \o <<Invalidate(BoostOfID(e.st))>>)

\* A CreateBlock that would stop at the first removal that fails.
fediCreateBlockStopsAtFailure(e) ==
    Cast(e, "Block",
         <<Call("Timelines.Home.WipeItemsFromAccountID", e.org, e.tgt, "abort"),
           Call("Timelines.Home.WipeItemsFromAccountID", e.tgt, e.org, "abort"),
           Call("Timelines.List.WipeItemsFromAccountID", e.org, e.tgt, "abort"),
           Call("Timelines.List.WipeItemsFromAccountID", e.tgt, e.org, "abort"),
           Call("DB.DeleteFollow", e.org, e.tgt, "abort"),
           Call("DB.DeleteFollow", e.tgt, e.org, "abort"),
           Call("DB.DeleteFollowRequest", e.org, e.tgt, "abort"),
           Call("DB.DeleteFollowRequest", e.tgt, e.org, "abort")>>)

fediCreateBlock(e) ==
    Cast(e, "Block",
         <<Call("Timelines.Home.WipeItemsFromAccountID", e.org, e.tgt, "log"),
           Call("Timelines.Home.WipeItemsFromAccountID", e.tgt, e.org, "log"),
           Call("Timelines.List.WipeItemsFromAccountID", e.org, e.tgt, "log"),
           Call("Timelines.List.WipeItemsFromAccountID", e.tgt, e.org, "log"),
           Call("DB.DeleteFollow", e.org, e.tgt, "log"),
           Call("DB.DeleteFollow", e.tgt, e.org, "log"),
           Call("DB.DeleteFollowRequest", e.org, e.tgt, "log"),
           Call("DB.DeleteFollowRequest", e.tgt, e.org, "log")>>)

fediCreateFlag(e) ==
    Cast(e, "Report", <<Log("surface.emailAdminReportOpened")>>)

fediUpdateAccount(e) ==
    Cast(e, "Account",
         IF e.apObject # "Accountable"
         THEN <<ReturnErr("cannot cast " \o e.apObject \o " -> ap.Accountable")>>
         ELSE <<Log("federate.RefreshAccount")>>)

fediAcceptFollow(e) ==
    <<Log("utils.decrementFollowRequestsCount"),
      Log("utils.incrementFollowersCount"),
      Log("utils.incrementFollowingCount")>>

\* apStatus, _ := fMsg.APObject.(ap.Statusable): the cast's result is not
\* checked.  RefreshStatus's error is logged and status.ID is read next: with
\* no status returned that read is a nil dereference.
fediUpdateStatus(e) ==
    Cast(e, "Status",
         <<Call("federate.RefreshStatus",
                IF e.apObject = "Statusable" THEN "apStatus" ELSE "nil", "",
                "nilderef"),
           Invalidate(e.st)>>
         \o (IF "pollClosing" \in e.flags
             THEN Surface("surface.notifyPollClose", notifyPollClose(e), e)
             ELSE <<>>)
         \o <<Log("surface.timelineStatusUpdate")>>)

\* A DeleteStatus that would wipe before its last purge.
fediDeleteStatusWipesFirst(e) ==
    Cast(e, "Status",
         <<Abort("DB.PopulateStatus"),
           Purge("Delivery", "ObjectID", StatusURI(e.st)),
           Purge("Delivery", "TargetID", StatusURI(e.st)),
           Purge("Client", "TargetURI", StatusURI(e.st)),
           Call("utils.wipeStatus", "deleteAttachments", StatusURI(e.st), "log"),
           Purge("Federator", "TargetURI", StatusURI(e.st)),
           Log("utils.decrementStatusesCount")>>)

fediDeleteStatus(e) ==
    Cast(e, "Status",
         <<UnlessNoEntries("DB.PopulateStatus", e, "log"),
           Purge("Delivery", "ObjectID", StatusURI(e.st)),
           Purge("Delivery", "TargetID", StatusURI(e.st)),
           Purge("Client", "TargetURI", StatusURI(e.st)),
           Purge("Federator", "TargetURI", StatusURI(e.st)),
           Call("utils.wipeStatus", "deleteAttachments", StatusURI(e.st), "log"),
           Log("utils.decrementStatusesCount")>>
         \o (IF "reply" \in e.flags
             THEN <<Invalidate(ParentID(e.st))>> ELSE <<>>))

\* The account of the message's model is the remote account being deleted.
fediDeleteAccount(e) ==
    Cast(e, "Account",
         <<Purge("Delivery", "ObjectID", AccountURI(e.org)),
           Purge("Delivery", "TargetID", AccountURI(e.org)),
           Purge("Client", "Target.ID", AccountID(e.org)),
           Purge("Client", "TargetURI", AccountURI(e.org)),
           Purge("Federator", "Requesting.ID", AccountID(e.org)),
           Purge("Federator", "TargetURI", AccountURI(e.org)),
           Call("account.Delete", AccountID(e.org), AccountURI(e.org), "log")>>)

\* fromfediapi_move.go: one call, whose error is the handler's.
fediMoveAccount(e) == <<Abort("fediAPI.MoveAccount")>>

\* ----------------------------------------------------- client-origin handlers
\* e.org is cMsg.Origin, e.tgt is cMsg.Target, e.model the dynamic type of
\* cMsg.GTSModel.

clientCreateAccount(e) ==
    Cast(e, "User",
         <<Log("surface.notifySignup"),
           Log("surface.emailAdminNewSignup"),
           Log("surface.emailUserPleaseConfirm")>>)

clientCreateStatus(e) ==
    Cast(e, "Status",
         <<Log("utils.incrementStatusesCount"),
           Log("surface.timelineAndNotifyStatus")>>
         \o (IF "reply" \in e.flags
             THEN <<Invalidate(ParentID(e.st))>> ELSE <<>>)
         \o <<Log("federate.CreateStatus")>>)

\* A client-origin CreatePollVote that would federate both ways.
clientCreatePollVoteSendsBoth(e) ==
    Cast(e, "PollVote",
         <<Abort("DB.PopulatePollVote"),
           Abort("DB.PopulatePoll"),
           Invalidate(e.st),
           Log("federate.UpdateStatus"),
           Log("federate.CreatePollVote")>>)

clientCreatePollVote(e) ==
    Cast(e, "PollVote",
         <<Abort("DB.PopulatePollVote"),
           Abort("DB.PopulatePoll"),
           Invalidate(e.st)>>
         \o (IF "local" \in e.flags
             THEN <<Log("federate.UpdateStatus")>>
             ELSE <<Log("federate.CreatePollVote")>>))

clientCreateFollowReq(e) ==
    Cast(e, "FollowRequest",
         <<Log("utils.incrementFollowRequestsCount")>>
         \o Surface("surface.notifyFollowRequest",
                    notifyFollowRequest(e, "skip"), e)
         \o <<Log("federate.Follow")>>)

clientCreateLike(e) ==
    Cast(e, "StatusFave",
         <<Abort("DB.PopulateStatusFave")>>
         \o Surface("surface.notifyFave", notifyFave(e, "skip"), e)
         \o <<Invalidate(e.st), Log("federate.Like")>>)

clientCreateAnnounce(e) ==
    Cast(e, "Status",
         <<Log("utils.incrementStatusesCount"),
           Log("surface.timelineAndNotifyStatus")>>
         \o Surface("surface.notifyAnnounce", notifyAnnounce(e, "skip"), e)
         \o <<Invalidate(BoostOfID(e.st)), Log("federate.Announce")>>)

\* A client-origin CreateBlock that would make the eight removals of the
\* federation-origin one, each logged.
clientCreateBlockRemovesAll(e) ==
    Cast(e, "Block",
         <<Call("Timelines.Home.WipeItemsFromAccountID", e.org, e.tgt, "log"),
           Call("Timelines.Home.WipeItemsFromAccountID", e.tgt, e.org, "log"),
           Call("Timelines.List.WipeItemsFromAccountID", e.org, e.tgt, "log"),
           Call("Timelines.List.WipeItemsFromAccountID", e.tgt, e.org, "log"),
           Call("DB.DeleteFollow", e.org, e.tgt, "log"),
           Call("DB.DeleteFollow", e.tgt, e.org, "log"),
           Call("DB.DeleteFollowRequest", e.org, e.tgt, "log"),
           Call("DB.DeleteFollowRequest", e.tgt, e.org, "log"),
           Log("federate.Block")>>)

clientCreateBlock(e) ==
    Cast(e, "Block",
         <<Call("Timelines.Home.WipeItemsFromAccountID", e.org, e.tgt, "abort"),
           Call("Timelines.Home.WipeItemsFromAccountID", e.tgt, e.org, "abort"),
           Log("federate.Block")>>)

clientUpdateStatus(e) ==
    Cast(e, "Status",
         <<Log("federate.UpdateStatus"), Invalidate(e.st)>>
         \o (IF "pollClosing" \in e.flags
             THEN Surface("surface.notifyPollClose", notifyPollClose(e), e)
             ELSE <<>>)
         \o <<Log("surface.timelineStatusUpdate")>>)

clientUpdateAccount(e) ==
    Cast(e, "Account", <<Log("federate.UpdateAccount")>>)

clientUpdateReport(e) ==
    Cast(e, "Report",
         IF "remoteReporter" \in e.flags THEN <<>>
         ELSE <<Log("surface.emailUserReportClosed")>>)

clientAcceptFollow(e) ==
    Cast(e, "Follow",
         <<Log("utils.decrementFollowRequestsCount"),
           Log("utils.incrementFollowersCount"),
           Log("utils.incrementFollowingCount")>>
         \o Surface("surface.notifyFollow", notifyFollow(e, "skip"), e)
         \o <<Log("federate.AcceptFollow")>>)

clientRejectFollowRequest(e) ==
    Cast(e, "FollowRequest",
         <<Log("utils.decrementFollowRequestsCount"),
           Log("federate.RejectFollow")>>)

clientUndoFollow(e) ==
    Cast(e, "Follow",
         <<Log("utils.decrementFollowingCount"),
           Log("utils.decrementFollowersCount"),
           Log("federate.UndoFollow")>>)

clientUndoBlock(e) ==
    Cast(e, "Block", <<Log("federate.UndoBlock")>>)

clientUndoFave(e) ==
    Cast(e, "StatusFave", <<Invalidate(e.st), Log("federate.UndoLike")>>)

clientUndoAnnounce(e) ==
    Cast(e, "Status",
         <<Abort("DB.DeleteStatusByID"),
           Log("utils.decrementStatusesCount"),
           Log("surface.deleteStatusFromTimelines"),
           Invalidate(BoostOfID(e.st)),
           Log("federate.UndoAnnounce")>>)

\* A DeleteStatus that would also invalidate the original of a deleted boost.
clientDeleteStatusInvalidatesBoost(e) ==
    Cast(e, "Status",
         <<Abort("DB.PopulateStatus"),
           Purge("Delivery", "ObjectID", StatusURI(e.st)),
           Purge("Delivery", "TargetID", StatusURI(e.st)),
           Purge("Client", "TargetURI", StatusURI(e.st)),
           Purge("Federator", "TargetURI", StatusURI(e.st)),
           Call("utils.wipeStatus", "keepAttachments", StatusURI(e.st), "log"),
           Log("utils.decrementStatusesCount")>>
         \o (IF "reply" \in e.flags
             THEN <<Invalidate(ParentID(e.st))>> ELSE <<>>)
         \o (IF "boost" \in e.flags
             THEN <<Invalidate(BoostOfID(e.st))>> ELSE <<>>)
         \o <<Log("federate.DeleteStatus")>>)

clientDeleteStatus(e) ==
    Cast(e, "Status",
         <<UnlessNoEntries("DB.PopulateStatus", e, "log"),
           Purge("Delivery", "ObjectID", StatusURI(e.st)),
           Purge("Delivery", "TargetID", StatusURI(e.st)),
           Purge("Client", "TargetURI", StatusURI(e.st)),
           Purge("Federator", "TargetURI", StatusURI(e.st)),
           Call("utils.wipeStatus", "keepAttachments", StatusURI(e.st), "log"),
           Log("utils.decrementStatusesCount")>>
         \o (IF "reply" \in e.flags
             THEN <<Invalidate(ParentID(e.st))>> ELSE <<>>)
         \o <<Log("federate.DeleteStatus")>>)

\* A DeleteAccount that would delete the account before federating it.
clientDeleteAccountDeletesFirst(e) ==
    <<Purge("Delivery", "ActorID", AccountURI(e.tgt)),
      Purge("Delivery", "ObjectID", AccountURI(e.tgt)),
      Purge("Delivery", "TargetID", AccountURI(e.tgt)),
      Purge("Client", "Origin.ID", AccountID(e.tgt)),
      Purge("Client", "Target.ID", AccountID(e.tgt)),
      Purge("Client", "TargetURI", AccountURI(e.tgt)),
      Purge("Federator", "Receiving.ID", AccountID(e.tgt)),
      Purge("Federator", "TargetURI", AccountURI(e.tgt)),
      Call("account.Delete",
           IF e.model = "DomainBlock" THEN "domainBlock.ID" ELSE AccountID(e.org),
           AccountURI(e.tgt), "log"),
      Log("federate.DeleteAccount")>>

\* The model is only looked at to pick originID: a DomainBlock's ID, and for
\* any other model the origin account's ID.  The account is cMsg.Target.
clientDeleteAccount(e) ==
    <<Purge("Delivery", "ActorID", AccountURI(e.tgt)),
      Purge("Delivery", "ObjectID", AccountURI(e.tgt)),
      Purge("Delivery", "TargetID", AccountURI(e.tgt)),
      Purge("Client", "Origin.ID", AccountID(e.tgt)),
      Purge("Client", "Target.ID", AccountID(e.tgt)),
      Purge("Client", "TargetURI", AccountURI(e.tgt)),
      Purge("Federator", "Receiving.ID", AccountID(e.tgt)),
      Purge("Federator", "TargetURI", AccountURI(e.tgt)),
      Log("federate.DeleteAccount"),
      Call("account.Delete",
           IF e.model = "DomainBlock" THEN "domainBlock.ID" ELSE AccountID(e.org),
           AccountURI(e.tgt), "log")>>

clientReportAccount(e) ==
    Cast(e, "Report",
         (IF "forwarded" \in e.flags THEN <<Log("federate.Flag")>> ELSE <<>>)
         \o <<Log("surface.emailAdminReportOpened")>>)

\* A MoveAccount that would only log a failed federation send.
clientMoveAccountLogsFederation(e) ==
    <<Do("utils.redirectFollowers", ""),
      Abort("DB.PopulateMove"),
      Log("federate.MoveAccount"),
      Do("Move.SucceededAt", "AttemptedAt"),
      Abort("DB.UpdateMove")>>

\* "Move.SucceededAt" is the assignment
\* cMsg.Origin.Move.SucceededAt = cMsg.Origin.Move.AttemptedAt, and
\* DB.UpdateMove writes the column succeeded_at.
clientMoveAccount(e) ==
    <<Do("utils.redirectFollowers", ""),
      Abort("DB.PopulateMove"),
      Abort("federate.MoveAccount"),
      Do("Move.SucceededAt", "AttemptedAt"),
      Abort("DB.UpdateMove")>>

\* An AcceptAccount that would send the email before it updates the user.
clientAcceptAccountEmailsFirst(e) ==
    Cast(e, "User",
         <<Log("surface.emailUserSignupApproved"), Abort("DB.UpdateUser")>>)

clientAcceptAccount(e) ==
    Cast(e, "User",
         <<Abort("DB.UpdateUser"), Log("surface.emailUserSignupApproved")>>)

clientRejectAccount(e) ==
    Cast(e, "DeniedUser",
         <<Log("DB.DeleteAccount"),
           Log("DB.DeleteUserByID"),
           Log("DB.PutDeniedUser")>>
         \o (IF "sendEmail" \in e.flags
             THEN <<Log("surface.emailUserSignupRejected")>> ELSE <<>>))

\* ------------------------------------------------------------ the dispatchers

\* switch fMsg.APActivityType { ... switch fMsg.APObjectType { ... } }: the
\* handler of the pair, "" when no case matches.
FediHandler(verb, obj) ==
    CASE verb = "Create" /\ obj = "Note"     -> "fediAPI.CreateStatus"
      [] verb = "Create" /\ obj = "Follow"   -> "fediAPI.CreateFollowReq"
      [] verb = "Create" /\ obj = "Like"     -> "fediAPI.CreateLike"
      [] verb = "Create" /\ obj = "Announce" -> "fediAPI.CreateAnnounce"
      [] verb = "Create" /\ obj = "Block"    -> "fediAPI.CreateBlock"
      [] verb = "Create" /\ obj = "Flag"     -> "fediAPI.CreateFlag"
      [] verb = "Create" /\ obj = "Question" -> "fediAPI.CreatePollVote"
      [] verb = "Update" /\ obj = "Note"     -> "fediAPI.UpdateStatus"
      [] verb = "Update" /\ obj = "Profile"  -> "fediAPI.UpdateAccount"
      [] verb = "Accept" /\ obj = "Follow"   -> "fediAPI.AcceptFollow"
      [] verb = "Delete" /\ obj = "Note"     -> "fediAPI.DeleteStatus"
      [] verb = "Delete" /\ obj = "Profile"  -> "fediAPI.DeleteAccount"
      [] verb = "Move"   /\ obj = "Profile"  -> "fediAPI.MoveAccount"
      [] OTHER -> ""

\* A client table that would take Person for Profile under Flag as well.
ClientHandlerFlagPerson(verb, obj) ==
    CASE verb = "Create" /\ obj \in {"Profile", "Person"} -> "clientAPI.CreateAccount"
      [] verb = "Create" /\ obj = "Note"     -> "clientAPI.CreateStatus"
      [] verb = "Create" /\ obj = "Question" -> "clientAPI.CreatePollVote"
      [] verb = "Create" /\ obj = "Follow"   -> "clientAPI.CreateFollowReq"
      [] verb = "Create" /\ obj = "Like"     -> "clientAPI.CreateLike"
      [] verb = "Create" /\ obj = "Announce" -> "clientAPI.CreateAnnounce"
      [] verb = "Create" /\ obj = "Block"    -> "clientAPI.CreateBlock"
      [] verb = "Update" /\ obj = "Note"     -> "clientAPI.UpdateStatus"
      [] verb = "Update" /\ obj \in {"Profile", "Person"} -> "clientAPI.UpdateAccount"
      [] verb = "Update" /\ obj = "Flag"     -> "clientAPI.UpdateReport"
      [] verb = "Accept" /\ obj = "Follow"   -> "clientAPI.AcceptFollow"
      [] verb = "Accept" /\ obj \in {"Profile", "Person"} -> "clientAPI.AcceptAccount"
      [] verb = "Reject" /\ obj = "Follow"   -> "clientAPI.RejectFollowRequest"
      [] verb = "Reject" /\ obj \in {"Profile", "Person"} -> "clientAPI.RejectAccount"
      [] verb = "Undo"   /\ obj = "Follow"   -> "clientAPI.UndoFollow"
      [] verb = "Undo"   /\ obj = "Block"    -> "clientAPI.UndoBlock"
      [] verb = "Undo"   /\ obj = "Like"     -> "clientAPI.UndoFave"
      [] verb = "Undo"   /\ obj = "Announce" -> "clientAPI.UndoAnnounce"
      [] verb = "Delete" /\ obj = "Note"     -> "clientAPI.DeleteStatus"
      [] verb = "Delete" /\ obj \in {"Profile", "Person"} -> "clientAPI.DeleteAccount"
      [] verb = "Flag"   /\ obj \in {"Profile", "Person"} -> "clientAPI.ReportAccount"
      [] verb = "Move"   /\ obj \in {"Profile", "Person"} -> "clientAPI.MoveAccount"
      [] OTHER -> ""

ClientHandler(verb, obj) ==
    CASE verb = "Create" /\ obj \in {"Profile", "Person"} -> "clientAPI.CreateAccount"
      [] verb = "Create" /\ obj = "Note"     -> "clientAPI.CreateStatus"
      [] verb = "Create" /\ obj = "Question" -> "clientAPI.CreatePollVote"
      [] verb = "Create" /\ obj = "Follow"   -> "clientAPI.CreateFollowReq"
      [] verb = "Create" /\ obj = "Like"     -> "clientAPI.CreateLike"
      [] verb = "Create" /\ obj = "Announce" -> "clientAPI.CreateAnnounce"
      [] verb = "Create" /\ obj = "Block"    -> "clientAPI.CreateBlock"
      [] verb = "Update" /\ obj = "Note"     -> "clientAPI.UpdateStatus"
      [] verb = "Update" /\ obj \in {"Profile", "Person"} -> "clientAPI.UpdateAccount"
      [] verb = "Update" /\ obj = "Flag"     -> "clientAPI.UpdateReport"
      [] verb = "Accept" /\ obj = "Follow"   -> "clientAPI.AcceptFollow"
      [] verb = "Accept" /\ obj \in {"Profile", "Person"} -> "clientAPI.AcceptAccount"
      [] verb = "Reject" /\ obj = "Follow"   -> "clientAPI.RejectFollowRequest"
      [] verb = "Reject" /\ obj \in {"Profile", "Person"} -> "clientAPI.RejectAccount"
      [] verb = "Undo"   /\ obj = "Follow"   -> "clientAPI.UndoFollow"
      [] verb = "Undo"   /\ obj = "Block"    -> "clientAPI.UndoBlock"
      [] verb = "Undo"   /\ obj = "Like"     -> "clientAPI.UndoFave"
      [] verb = "Undo"   /\ obj = "Announce" -> "clientAPI.UndoAnnounce"
      [] verb = "Delete" /\ obj = "Note"     -> "clientAPI.DeleteStatus"
      [] verb = "Delete" /\ obj \in {"Profile", "Person"} -> "clientAPI.DeleteAccount"
      [] verb = "Flag"   /\ obj = "Profile"  -> "clientAPI.ReportAccount"
      [] verb = "Move"   /\ obj \in {"Profile", "Person"} -> "clientAPI.MoveAccount"
      [] OTHER -> ""

HandlerOf(e) ==
    IF e.origin = "fedi" THEN FediHandler(e.verb, e.obj)
    ELSE ClientHandler(e.verb, e.obj)

\* A function called directly (not through a dispatcher): e.obj names it, and
\* for Surface.Notify e.model is the notification type.
DirectCall(name, ntype, tgt, org, st) ==
    [origin |-> "direct", verb |-> "call", obj |-> name, model |-> ntype,
     apObject |-> "nil", iri |-> FALSE, flags |-> {},
     tgt |-> tgt, org |-> org, st |-> st, inline |-> TRUE]

\* A dispatcher that would fall out of its switch silently.
UnhandledSilently(verb, obj) == Nil

\* A dispatcher that would log a handler's error and return nil.
DispatcherSwallows(r) == Nil

\* gtserror.Newf("unhandled: %s %s", APActivityType, APObjectType)
UnhandledError(verb, obj) == Err(<<"unhandled: ", verb, " ", obj>>)

\* return p.fediAPI.X(ctx, fMsg): the dispatcher's result is the handler's.
DispatcherResult(r) == r

\* The body of handler h on message e.
HandlerSteps(h, e) ==
    CASE h = "fediAPI.CreateStatus"          -> fediCreateStatus(e)
      [] h = "fediAPI.CreateFollowReq"       -> fediCreateFollowReq(e)
      [] h = "fediAPI.CreateLike"            -> fediCreateLike(e)
      [] h = "fediAPI.CreateAnnounce"        -> fediCreateAnnounce(e)
      [] h = "fediAPI.CreateBlock"           -> fediCreateBlock(e)
      [] h = "fediAPI.CreateFlag"            -> fediCreateFlag(e)
      [] h = "fediAPI.CreatePollVote"        -> fediCreatePollVote(e)
      [] h = "fediAPI.UpdateStatus"          -> fediUpdateStatus(e)
      [] h = "fediAPI.UpdateAccount"         -> fediUpdateAccount(e)
      [] h = "fediAPI.AcceptFollow"          -> fediAcceptFollow(e)
      [] h = "fediAPI.DeleteStatus"          -> fediDeleteStatus(e)
      [] h = "fediAPI.DeleteAccount"         -> fediDeleteAccount(e)
      [] h = "fediAPI.MoveAccount"           -> fediMoveAccount(e)
      [] h = "clientAPI.CreateAccount"       -> clientCreateAccount(e)
      [] h = "clientAPI.CreateStatus"        -> clientCreateStatus(e)
      [] h = "clientAPI.CreatePollVote"      -> clientCreatePollVote(e)
      [] h = "clientAPI.CreateFollowReq"     -> clientCreateFollowReq(e)
      [] h = "clientAPI.CreateLike"          -> clientCreateLike(e)
      [] h = "clientAPI.CreateAnnounce"      -> clientCreateAnnounce(e)
      [] h = "clientAPI.CreateBlock"         -> clientCreateBlock(e)
      [] h = "clientAPI.UpdateStatus"        -> clientUpdateStatus(e)
      [] h = "clientAPI.UpdateAccount"       -> clientUpdateAccount(e)
      [] h = "clientAPI.UpdateReport"        -> clientUpdateReport(e)
      [] h = "clientAPI.AcceptFollow"        -> clientAcceptFollow(e)
      [] h = "clientAPI.AcceptAccount"       -> clientAcceptAccount(e)
      [] h = "clientAPI.RejectFollowRequest" -> clientRejectFollowRequest(e)
      [] h = "clientAPI.RejectAccount"       -> clientRejectAccount(e)
      [] h = "clientAPI.UndoFollow"          -> clientUndoFollow(e)
      [] h = "clientAPI.UndoBlock"           -> clientUndoBlock(e)
      [] h = "clientAPI.UndoFave"            -> clientUndoFave(e)
      [] h = "clientAPI.UndoAnnounce"        -> clientUndoAnnounce(e)
      [] h = "clientAPI.DeleteStatus"        -> clientDeleteStatus(e)
      [] h = "clientAPI.DeleteAccount"       -> clientDeleteAccount(e)
      [] h = "clientAPI.ReportAccount"       -> clientReportAccount(e)
      [] h = "clientAPI.MoveAccount"         -> clientMoveAccount(e)
      [] h = "Surface.notifyFollowRequest"   -> notifyFollowRequest(e, "abort")
      [] h = "Surface.notifyFollow"          -> notifyFollow(e, "abort")
      [] h = "Surface.notifySignup"          -> notifySignup(e)
      [] h = "Surface.notifyFave"            -> notifyFave(e, "abort")
      [] h = "Surface.notifyAnnounce"        -> notifyAnnounce(e, "abort")
      [] h = "Surface.Notify"                ->
            <<NotifyCall(e.model, e.tgt, e.org, e.st, "abort", 0)>>
      [] h = "Processor.NotificationsClear"  ->
            <<Call("DB.DeleteNotifications", "", AccountID(e.tgt), "abort")>>

\* The type T of the handler's model, ok := msg.GTSModel.(T) whose failure the
\* handler returns ("": the handler has no such assertion).
CheckedModel(h) ==
    CASE h \in {"fediAPI.CreateAnnounce", "fediAPI.UpdateStatus",
                "fediAPI.DeleteStatus", "clientAPI.CreateStatus",
                "clientAPI.CreateAnnounce", "clientAPI.UpdateStatus",
                "clientAPI.UndoAnnounce", "clientAPI.DeleteStatus"} -> "Status"
      [] h \in {"fediAPI.CreatePollVote", "clientAPI.CreatePollVote"} -> "PollVote"
      [] h \in {"fediAPI.CreateFollowReq", "clientAPI.CreateFollowReq",
                "clientAPI.RejectFollowRequest"} -> "FollowRequest"
      [] h \in {"fediAPI.CreateLike", "clientAPI.CreateLike",
                "clientAPI.UndoFave"} -> "StatusFave"
      [] h \in {"fediAPI.CreateBlock", "clientAPI.CreateBlock",
                "clientAPI.UndoBlock"} -> "Block"
      [] h \in {"fediAPI.CreateFlag", "clientAPI.UpdateReport",
                "clientAPI.ReportAccount"} -> "Report"
      [] h \in {"fediAPI.UpdateAccount", "fediAPI.DeleteAccount",
                "clientAPI.UpdateAccount"} -> "Account"
      [] h \in {"clientAPI.AcceptFollow", "clientAPI.UndoFollow"} -> "Follow"
      [] h \in {"clientAPI.CreateAccount", "clientAPI.AcceptAccount"} -> "User"
      [] h = "clientAPI.RejectAccount" -> "DeniedUser"
      [] OTHER -> ""

\* The handler asserts msg.APObject's type and returns the failure:
\* CreateStatus when APObject is set, UpdateAccount always.
CheckedObjectMismatch(h, e) ==
    \/ h = "fediAPI.CreateStatus" /\ e.apObject \notin {"nil", "Statusable"}
    \/ /\ h = "fediAPI.UpdateAccount"
       /\ e.model = "Account"
       /\ e.apObject # "Accountable"

\* The assertions whose result the handler does not check: UpdateStatus's
\* fMsg.APObject.(ap.Statusable), and DeleteAccount's
\* cMsg.GTSModel.(*gtsmodel.DomainBlock), whose else branch takes any model.
UncheckedMismatch(h, e) ==
    \/ /\ h = "fediAPI.UpdateStatus"
       /\ e.model = "Status"
       /\ e.apObject \notin {"nil", "Statusable"}
    \/ /\ h = "clientAPI.DeleteAccount"
       /\ e.model \notin {"DomainBlock", "Account", "nil"}

CheckedMismatch(h, e) ==
    \/ CheckedModel(h) # "" /\ e.model # CheckedModel(h)
    \/ CheckedObjectMismatch(h, e)

\* ---------------------------------------------------------------- messages

Verbs == {"Create", "Update", "Accept", "Reject", "Undo", "Delete", "Flag",
          "Move", "Add"}

ObjectTypes == {"Profile", "Person", "Note", "Question", "Follow", "Like",
                "Announce", "Block", "Flag", "Tombstone"}

ModelTypes == {"nil", "Status", "Account", "PollVote", "FollowRequest",
               "Follow", "StatusFave", "Block", "Report", "User", "DeniedUser",
               "DomainBlock"}

\* What each handler reads besides the types of its model and object.
\* "boost" (the deleted status has a BoostOfID) is a property of the status
\* that DeleteStatus does not read.
Conds(h) ==
    CASE h = "fediAPI.CreateStatus"     -> {"raced", "reply"}
      [] h = "fediAPI.CreatePollVote"   -> {"local"}
      [] h = "fediAPI.CreateFollowReq"  -> {"locked"}
      [] h = "fediAPI.CreateAnnounce"   -> {"unretrievable"}
      [] h = "fediAPI.UpdateStatus"     -> {"pollClosing"}
      [] h = "fediAPI.DeleteStatus"     -> {"reply", "boost"}
      [] h = "clientAPI.CreateStatus"   -> {"reply"}
      [] h = "clientAPI.CreatePollVote" -> {"local"}
      [] h = "clientAPI.UpdateStatus"   -> {"pollClosing"}
      [] h = "clientAPI.UpdateReport"   -> {"remoteReporter"}
      [] h = "clientAPI.DeleteStatus"   -> {"reply", "boost"}
      [] h = "clientAPI.ReportAccount"  -> {"forwarded"}
      [] h = "clientAPI.RejectAccount"  -> {"sendEmail"}
      [] OTHER -> {}

ApObjects(h) ==
    CASE h = "fediAPI.CreateStatus"  -> {"nil", "Statusable", "Accountable"}
      [] h = "fediAPI.UpdateStatus"  -> {"nil", "Statusable", "Accountable"}
      [] h = "fediAPI.UpdateAccount" -> {"nil", "Statusable", "Accountable"}
      [] OTHER -> {"nil"}

Message(origin, verb, obj, model, apObject, iri, flags, tgt, org, st, inline) ==
    [origin |-> origin, verb |-> verb, obj |-> obj, model |-> model,
     apObject |-> apObject, iri |-> iri, flags |-> flags,
     tgt |-> tgt, org |-> org, st |-> st, inline |-> inline]

NoMessage == Message("", "", "", "", "", FALSE, {}, "", "", "", FALSE)

\* The messages of the two queues: every (activity, object) pair, with every
\* model type for a pair that has a handler.  A federation-origin message is
\* from the remote account to alice, a client-origin one from bob to alice.
Messages(origin) ==
    UNION {
      LET h == IF origin = "fedi" THEN FediHandler(verb, obj)
               ELSE ClientHandler(verb, obj)
      IN  {Message(origin, verb, obj, model, apObject, iri, flags, "alice",
                   IF origin = "fedi" THEN "rem" ELSE "bob", "S1", FALSE) :
             model \in (IF h = "" THEN {"nil"} ELSE ModelTypes),
             apObject \in ApObjects(h),
             iri \in (IF h = "fediAPI.CreateStatus" THEN BOOLEAN ELSE {FALSE}),
             flags \in SUBSET Conds(h)}
      : verb \in Verbs, obj \in ObjectTypes}

\* ------------------------------------------------------------------ actions

\* The struct caches modelled.
CacheKinds == {"Instance", "Notification", "Poll"}

\* The (origin, target) pairs of the follows between the two local accounts.
FollowPairs == {<<"bob", "alice">>, <<"alice", "bob">>}

\* The counters of an account's stats; "failed" is a history counter: the
\* number of counter updates for the account that returned an error.
Counters == {"followRequests", "followers", "following", "failed"}

Init ==
    /\ pc = [w \in Workers |-> "idle"]
    /\ env = [w \in Workers |-> NoMessage]
    /\ steps = [w \in Workers |-> <<>>]
    /\ effects = [w \in Workers |-> <<>>]
    /\ hret = [w \in Workers |-> NoRet]
    /\ result = [w \in Workers |-> NoRet]
    /\ invoked = [w \in Workers |-> <<>>]
    /\ prev = [w \in Workers |-> 0]
    /\ held = [w \in Workers |-> ""]
    /\ made = [w \in Workers |-> 0]
    /\ notifs = {}
    /\ nextID = 1
    /\ stream = <<>>
    /\ queues = [q \in {"Delivery", "Client", "Federator"} |-> {}]
    /\ inflight = [w \in Workers |-> <<>>]
    /\ wiped = {}
    /\ calls = 0
    /\ cancelled = [w \in Workers |-> 0]
    /\ statuses = {}
    /\ prepared = {}
    /\ follows = [p \in FollowPairs |-> "none"]
    /\ stats = [c \in Counters |-> [a \in Accounts |-> 0]]
    /\ cache = [heap |-> <<>>, stored |-> [k \in CacheKinds |-> 0], handed |-> {}]

\* What the caller does once call s has returned: ok, or with an error.
After(s, rest, ok) ==
    IF ok \/ s.fail = "log"
    THEN [pc |-> "run", steps |-> rest, hret |-> NoRet]
    ELSE CASE s.fail = "skip" ->
                [pc |-> "run",
                 steps |-> SubSeq(rest, s.n + 1, Len(rest)),
                 hret |-> NoRet]
           [] s.fail = "abort" ->
                [pc |-> "hreturn", steps |-> <<>>, hret |-> Err(<<s.op>>)]
           [] s.fail = "stop" ->
                [pc |-> "hreturn", steps |-> <<>>, hret |-> Nil]
           [] s.fail = "nilderef" ->
                [pc |-> "hreturn", steps |-> <<>>, hret |-> Panic]

\* The outcomes of call s.
Outcomes(s) == IF s.fail = "never" THEN {TRUE} ELSE BOOLEAN

Effect(s, ok) ==
    [op |-> s.op, arg |-> s.arg, val |-> s.val, tgt |-> s.tgt, org |-> s.org,
     ok |-> ok]

\* Worker w's call s has returned.
Returned(w, s, ok) ==
    LET a == After(s, Tail(steps[w]), ok)
    IN  /\ pc' = [pc EXCEPT ![w] = a.pc]
        /\ steps' = [steps EXCEPT ![w] = a.steps]
        /\ hret' = [hret EXCEPT ![w] = a.hret]
        /\ effects' = [effects EXCEPT ![w] = Append(@, Effect(s, ok))]

StoreOps == {"Notify", "DB.GetNotification", "DB.DeleteNotificationByID",
             "DB.DeleteNotifications"}

DeleteOps == {"utils.wipeStatus", "account.Delete"}

\* A worker of the client or federator queue takes message e, one at a time.
Receive(w, e) ==
    /\ pc' = [pc EXCEPT ![w] = "dispatch"]
    /\ env' = [env EXCEPT ![w] = e]
    /\ UNCHANGED <<steps, effects, hret, result, invoked, prev, held, made, notifs,
                   nextID, stream, queues, inflight, wiped, calls, cancelled,
                   statuses, prepared,
                   follows, stats, cache>>

ReceiveFromFediAPI(w) ==
    /\ \A v \in Workers : pc[v] = "idle"
    /\ \E e \in Messages("fedi") : Receive(w, e)

ReceiveFromClientAPI(w) ==
    /\ \A v \in Workers : pc[v] = "idle"
    /\ \E e \in Messages("client") : Receive(w, e)

\* ProcessFromFediAPI / ProcessFromClientAPI: the switch.
Dispatch(w) ==
    /\ pc[w] = "dispatch"
    /\ LET h == HandlerOf(env[w])
       IN  IF h = ""
           THEN /\ result' = [result EXCEPT
                                ![w] = UnhandledError(env[w].verb, env[w].obj)]
                /\ pc' = [pc EXCEPT ![w] = "done"]
                /\ UNCHANGED <<invoked, steps>>
           ELSE /\ invoked' = [invoked EXCEPT ![w] = Append(@, h)]
                /\ steps' = [steps EXCEPT ![w] = HandlerSteps(h, env[w])]
                /\ pc' = [pc EXCEPT ![w] = "run"]
                /\ UNCHANGED result
    /\ UNCHANGED <<env, effects, hret, prev, held, made, notifs, nextID, stream,
                   queues, inflight, wiped, calls, cancelled, statuses,
                   prepared,
                   follows, stats, cache>>

\* A call into a collaborator that changes nothing modelled here.
RunStep(w) ==
    /\ pc[w] = "run"
    /\ steps[w] # <<>>
    /\ LET s == Head(steps[w])
       IN  /\ s.op \notin StoreOps \cup DeleteOps \cup {"return", "Queue.Delete"}
           /\ \E ok \in Outcomes(s) : Returned(w, s, ok)
    /\ UNCHANGED <<env, result, invoked, prev, held, made, notifs, nextID, stream,
                   queues, inflight, wiped, calls, cancelled, statuses,
                   prepared,
                   follows, stats, cache>>

\* A queue item: a message pending in queue q whose index field has the key.
Item(q, index, key) == [queue |-> q, index |-> index, key |-> key]

\* A Queue.Delete that would leave the queue as it is.
PurgedNothing(items, index, key) == items

\* Queue.Delete(index, key) on the pending items of a queue.
Purged(items, index, key) ==
    {i \in items : ~(i.index = index /\ i.key = key)}

\* Queue.Delete(index, key): drops the pending items whose index has the key.
PurgeStep(w) ==
    /\ pc[w] = "run"
    /\ steps[w] # <<>>
    /\ LET s == Head(steps[w])
       IN  /\ s.op = "Queue.Delete"
           /\ queues' = [queues EXCEPT ![s.tgt] = Purged(@, s.arg, s.val)]
           /\ Returned(w, s, TRUE)
    /\ UNCHANGED <<env, result, invoked, prev, held, made, notifs, nextID, stream,
                   inflight, wiped, calls, cancelled, statuses, prepared,
                   follows, stats, cache>>

\* utils.wipeStatus / account.Delete: the entity is gone once the call succeeds.
DeleteStep(w) ==
    /\ pc[w] = "run"
    /\ steps[w] # <<>>
    /\ LET s == Head(steps[w])
       IN  /\ s.op \in DeleteOps
           /\ \E ok \in Outcomes(s) :
                /\ wiped' = IF ok THEN wiped \cup {s.val} ELSE wiped
                /\ Returned(w, s, ok)
    /\ UNCHANGED <<env, result, invoked, prev, held, made, notifs, nextID, stream,
                   queues, inflight, calls, cancelled, statuses, prepared,
                   follows, stats, cache>>

\* The handler returns an error before its first call.
ReturnStep(w) ==
    /\ pc[w] = "run"
    /\ steps[w] # <<>>
    /\ Head(steps[w]).op = "return"
    /\ hret' = [hret EXCEPT ![w] = Err(<<Head(steps[w]).val>>)]
    /\ steps' = [steps EXCEPT ![w] = <<>>]
    /\ pc' = [pc EXCEPT ![w] = "hreturn"]
    /\ UNCHANGED <<env, effects, result, invoked, prev, held, made, notifs, nextID,
                   stream, queues, inflight, wiped, calls, cancelled,
                   statuses, prepared,
                   follows, stats, cache>>

\* The handler reaches its final return nil.
HandlerEnd(w) ==
    /\ pc[w] = "run"
    /\ steps[w] = <<>>
    /\ hret' = [hret EXCEPT ![w] = Nil]
    /\ pc' = [pc EXCEPT ![w] = "hreturn"]
    /\ UNCHANGED <<env, steps, effects, result, invoked, prev, held, made, notifs,
                   nextID, stream, queues, inflight, wiped, calls, cancelled,
                   statuses, prepared,
                   follows, stats, cache>>

\* The dispatcher (or the direct caller) gets the handler's return value.
DispatchReturn(w) ==
    /\ pc[w] = "hreturn"
    /\ result' = [result EXCEPT ![w] = DispatcherResult(hret[w])]
    /\ pc' = [pc EXCEPT ![w] = "done"]
    /\ UNCHANGED <<env, steps, effects, hret, invoked, prev, held, made, notifs,
                   nextID, stream, queues, inflight, wiped, calls, cancelled,
                   statuses, prepared,
                   follows, stats, cache>>

\* The worker is free for the next message.
Finish(w) ==
    /\ pc[w] = "done"
    /\ pc' = [pc EXCEPT ![w] = "idle"]
    /\ env' = [env EXCEPT ![w] = NoMessage]
    /\ steps' = [steps EXCEPT ![w] = <<>>]
    /\ effects' = [effects EXCEPT ![w] = <<>>]
    /\ hret' = [hret EXCEPT ![w] = NoRet]
    /\ result' = [result EXCEPT ![w] = NoRet]
    /\ invoked' = [invoked EXCEPT ![w] = <<>>]
    /\ prev' = [prev EXCEPT ![w] = 0]
    /\ cancelled' = [cancelled EXCEPT ![w] = 0]
    /\ made' = [made EXCEPT ![w] = 0]
    /\ UNCHANGED <<held, notifs, nextID, stream, queues, inflight, wiped, calls, statuses, prepared,
                   follows, stats, cache>>

\* ------------------------------------------------- the notification model
\* Surface.Notify, notifyFollowRequest, notifyFollow and NotificationsClear
\* run on any worker at any time; every storage call is one step.

\* Direct calls of Surface.Notify: a favourite of alice's status S1 by the
\* remote account and by bob, and one whose target is the remote account.
NotifyCalls ==
    {DirectCall("Surface.Notify", NotificationFave, "alice", "rem", "S1"),
     DirectCall("Surface.Notify", NotificationFave, "alice", "bob", "S1"),
     DirectCall("Surface.Notify", NotificationFave, "rem", "bob", "S1")}

\* Federation deliveries of a Like of alice's status S1 by the remote account.
LikeMessages ==
    {Message("fedi", "Create", "Like", model, "nil", FALSE, flags,
             "alice", "rem", "S1", TRUE) :
        model \in {"StatusFave", "nil"}, flags \in SUBSET {"muted"}}

\* bob follows (or asks to follow) alice, and bob follows the remote account.
FollowCalls ==
    {DirectCall(name, "", tgt, "bob", "") :
        name \in {"Surface.notifyFollowRequest", "Surface.notifyFollow"},
        tgt \in {"alice", "rem"}}

ClearCalls == {DirectCall("Processor.NotificationsClear", "", "alice", "alice", "")}

\* A caller invokes function e.obj on worker w.
StartCall(w, e) ==
    /\ pc[w] = "idle"
    /\ calls < MaxCalls
    /\ calls' = calls + 1
    /\ env' = [env EXCEPT ![w] = e]
    /\ invoked' = [invoked EXCEPT ![w] = <<e.obj>>]
    /\ steps' = [steps EXCEPT ![w] = HandlerSteps(e.obj, e)]
    /\ pc' = [pc EXCEPT ![w] = "run"]
    /\ UNCHANGED <<effects, hret, result, prev, held, made, notifs, nextID,
                   stream, queues, inflight, wiped, cancelled, statuses,
                   prepared,
                   follows, stats, cache>>

CallNotify(w) == \E e \in NotifyCalls : StartCall(w, e)

CallFollow(w) == \E e \in FollowCalls : StartCall(w, e)

CallClear(w) == \E e \in ClearCalls : StartCall(w, e)

\* A federator worker takes a Like delivery while others are running.
ReceiveLike(w) ==
    /\ pc[w] = "idle"
    /\ calls < MaxCalls
    /\ calls' = calls + 1
    /\ \E e \in LikeMessages : env' = [env EXCEPT ![w] = e]
    /\ pc' = [pc EXCEPT ![w] = "dispatch"]
    /\ UNCHANGED <<steps, effects, hret, result, invoked, prev, held, made,
                   notifs, nextID, stream, queues, inflight, wiped, cancelled,
                   statuses, prepared,
                   follows, stats, cache>>

\* The key of the Notify call s.
KeyOf(s) == getNotifyLockURI(s.arg, s.tgt, s.org, s.val)

\* Worker w is at a call of Surface.Notify.
AtNotify(w) ==
    /\ pc[w] = "run"
    /\ steps[w] # <<>>
    /\ Head(steps[w]).op = "Notify"

\* A Notify that would take the lock for a remote target as for a local one.
NotifyRemoteLocks(w) ==
    /\ AtNotify(w)
    /\ IsRemote(Head(steps[w]).tgt)
    /\ LockFree(KeyOf(Head(steps[w])), w)
    /\ held' = [held EXCEPT ![w] = KeyOf(Head(steps[w]))]
    /\ pc' = [pc EXCEPT ![w] = "N_check"]
    /\ UNCHANGED <<env, steps, effects, hret, result, invoked, prev, made,
                   notifs, nextID, stream, queues, inflight, wiped, calls,
                   cancelled, statuses, prepared,
                   follows, stats, cache>>

\* if targetAccount.IsRemote() { return nil }
NotifyRemote(w) ==
    /\ AtNotify(w)
    /\ IsRemote(Head(steps[w]).tgt)
    /\ Returned(w, Head(steps[w]), TRUE)
    /\ UNCHANGED <<env, result, invoked, prev, held, made, notifs, nextID,
                   stream, queues, inflight, wiped, calls, cancelled,
                   statuses, prepared,
                   follows, stats, cache>>

\* unlock := s.State.ProcessingLocks.Lock(lockURI)
NotifyLock(w) ==
    /\ AtNotify(w)
    /\ ~IsRemote(Head(steps[w]).tgt)
    /\ LockFree(KeyOf(Head(steps[w])), w)
    /\ held' = [held EXCEPT ![w] = KeyOf(Head(steps[w]))]
    /\ pc' = [pc EXCEPT ![w] = "N_check"]
    /\ UNCHANGED <<env, steps, effects, hret, result, invoked, prev, made,
                   notifs, nextID, stream, queues, inflight, wiped, calls, cancelled,
                   statuses, prepared,
                   follows, stats, cache>>

\* A Notify whose deferred unlock would not run.
NotifyReturnLeaks(w, ok) ==
    /\ held' = held
    /\ Returned(w, Head(steps[w]), ok)

\* Notify returns (nil or an error) with the deferred unlock still to run.
NotifyReturn(w, ok) ==
    /\ held' = [held EXCEPT ![w] = ""]
    /\ Returned(w, Head(steps[w]), ok)

\* A Notify that would go on to insert whatever the existence check finds.
NotifyCheckAlwaysCreates(w) ==
    /\ pc[w] = "N_check"
    /\ \E ok \in BOOLEAN :
          IF ~ok THEN NotifyReturn(w, FALSE)
          ELSE /\ pc' = [pc EXCEPT ![w] = "N_put"]
               /\ UNCHANGED <<held, steps, effects, hret>>
    /\ UNCHANGED <<env, result, invoked, prev, made, notifs, nextID, stream,
                   queues, inflight, wiped, calls, cancelled, statuses,
                   prepared,
                   follows, stats, cache>>

\* A Notify that would take any error of the existence check for absence.
NotifyCheckInsertsOnError(w) ==
    /\ pc[w] = "N_check"
    /\ LET s == Head(steps[w])
           m == Matching(s.arg, AccountID(s.tgt), AccountID(s.org), s.val)
       IN  \E ok \in BOOLEAN :
             IF ok /\ m # {} THEN NotifyReturn(w, TRUE)
             ELSE /\ pc' = [pc EXCEPT ![w] = "N_put"]
                  /\ UNCHANGED <<held, steps, effects, hret>>
    /\ UNCHANGED <<env, result, invoked, prev, made, notifs, nextID, stream,
                   queues, inflight, wiped, calls, cancelled, statuses,
                   prepared,
                   follows, stats, cache>>

\* DB.GetNotification(type, target, origin, statusID): a row (return nil), an
\* error other than ErrNoEntries (return it), or no row (go on).
NotifyCheck(w) ==
    /\ pc[w] = "N_check"
    /\ LET s == Head(steps[w])
           m == Matching(s.arg, AccountID(s.tgt), AccountID(s.org), s.val)
       IN  \E ok \in BOOLEAN :
             IF ~ok THEN NotifyReturn(w, FALSE)
             ELSE IF m # {} THEN NotifyReturn(w, TRUE)
             ELSE /\ pc' = [pc EXCEPT ![w] = "N_put"]
                  /\ UNCHANGED <<held, steps, effects, hret>>
    /\ UNCHANGED <<env, result, invoked, prev, made, notifs, nextID, stream,
                   queues, inflight, wiped, calls, cancelled, statuses,
                   prepared,
                   follows, stats, cache>>

\* DB.PutNotification(notif)
NotifyPut(w) ==
    /\ pc[w] = "N_put"
    /\ LET s == Head(steps[w])
       IN  \E ok \in BOOLEAN :
             IF ok
             THEN /\ notifs' = notifs \cup {NewNotification(s)}
                  /\ made' = [made EXCEPT ![w] = nextID]
                  /\ nextID' = nextID + 1
                  /\ pc' = [pc EXCEPT ![w] = "N_unlock"]
                  /\ UNCHANGED <<held, steps, effects, hret>>
             ELSE /\ NotifyReturn(w, FALSE)
                  /\ UNCHANGED <<notifs, made, nextID>>
    /\ UNCHANGED <<env, result, invoked, prev, stream, queues, inflight,
                   wiped, calls, cancelled, statuses, prepared,
                   follows, stats, cache>>

\* A Notify that would keep the lock while it pushes.
NotifyKeepsLock(w) ==
    /\ pc[w] = "N_unlock"
    /\ pc' = [pc EXCEPT ![w] = "N_filters"]
    /\ UNCHANGED <<env, steps, effects, hret, result, invoked, prev, held, made,
                   notifs, nextID, stream, queues, inflight, wiped, calls,
                   cancelled, statuses, prepared,
                   follows, stats, cache>>

\* unlock(): the lock is released before the filters are read.
NotifyUnlock(w) ==
    /\ pc[w] = "N_unlock"
    /\ held' = [held EXCEPT ![w] = ""]
    /\ pc' = [pc EXCEPT ![w] = "N_filters"]
    /\ UNCHANGED <<env, steps, effects, hret, result, invoked, prev, made,
                   notifs, nextID, stream, queues, inflight, wiped, calls, cancelled,
                   statuses, prepared,
                   follows, stats, cache>>

\* A Notify that would return nil when the filters or the conversion fail.
NotifyPrepareSwallows(w) ==
    /\ pc[w] \in {"N_filters", "N_convert"}
    /\ \E ok \in BOOLEAN :
         IF ok
         THEN /\ pc' = [pc EXCEPT ![w] = IF pc[w] = "N_filters"
                                         THEN "N_convert" ELSE "N_stream"]
              /\ UNCHANGED <<steps, effects, hret>>
         ELSE Returned(w, Head(steps[w]), TRUE)
    /\ UNCHANGED <<env, result, invoked, prev, held, made, notifs, nextID,
                   stream, queues, inflight, wiped, calls, cancelled,
                   statuses, prepared,
                   follows, stats, cache>>

\* DB.GetFiltersForAccountID, then Converter.NotificationToAPINotification:
\* an error of either is returned, with the row already stored.
NotifyPrepare(w) ==
    /\ pc[w] \in {"N_filters", "N_convert"}
    /\ \E ok \in BOOLEAN :
         IF ok
         THEN /\ pc' = [pc EXCEPT ![w] = IF pc[w] = "N_filters"
                                         THEN "N_convert" ELSE "N_stream"]
              /\ UNCHANGED <<steps, effects, hret>>
         ELSE Returned(w, Head(steps[w]), FALSE)
    /\ UNCHANGED <<env, result, invoked, prev, held, made, notifs, nextID,
                   stream, queues, inflight, wiped, calls, cancelled,
                   statuses, prepared,
                   follows, stats, cache>>

\* A Notify that would push the notification twice.
NotifyStreamTwice(w) ==
    /\ pc[w] = "N_stream"
    /\ LET x == [account |-> Head(steps[w]).tgt, id |-> made[w]]
       IN  stream' = Append(Append(stream, x), x)
    /\ Returned(w, Head(steps[w]), TRUE)
    /\ UNCHANGED <<env, result, invoked, prev, held, made, notifs, nextID,
                   queues, inflight, wiped, calls, cancelled, statuses,
                   prepared,
                   follows, stats, cache>>

\* s.Stream.Notify(ctx, targetAccount, apiNotif); return nil
NotifyStream(w) ==
    /\ pc[w] = "N_stream"
    /\ stream' = Append(stream, [account |-> Head(steps[w]).tgt,
                                 id |-> made[w]])
    /\ Returned(w, Head(steps[w]), TRUE)
    /\ UNCHANGED <<env, result, invoked, prev, held, made, notifs, nextID,
                   queues, inflight, wiped, calls, cancelled, statuses,
                   prepared,
                   follows, stats, cache>>

\* Worker w is at a call of op.
At(w, op) ==
    /\ pc[w] = "run"
    /\ steps[w] # <<>>
    /\ Head(steps[w]).op = op

\* notifyFollow: prevNotif, err := DB.GetNotification(follow_request, ...).
\* ErrNoEntries leaves prevNotif nil and is not an error.
GetPrevNotif(w) ==
    /\ At(w, "DB.GetNotification")
    /\ LET s == Head(steps[w])
           m == Matching(s.arg, AccountID(s.tgt), AccountID(s.org), s.val)
       IN  \E ok \in BOOLEAN :
             /\ prev' = [prev EXCEPT ![w] = IF ok /\ m # {}
                                            THEN (CHOOSE x \in m : TRUE).id
                                            ELSE 0]
             /\ Returned(w, s, ok)
    /\ UNCHANGED <<env, result, invoked, held, made, notifs, nextID, stream,
                   queues, inflight, wiped, calls, cancelled, statuses,
                   prepared,
                   follows, stats, cache>>

\* notifyFollow: if prevNotif != nil { DB.DeleteNotificationByID(prevNotif.ID) }.
\* A row already gone (ErrNoEntries) is not an error.
DeletePrevNotif(w) ==
    /\ At(w, "DB.DeleteNotificationByID")
    /\ LET s == Head(steps[w])
       IN  IF prev[w] = 0
           THEN /\ steps' = [steps EXCEPT ![w] = Tail(@)]
                /\ UNCHANGED <<pc, hret, effects, notifs>>
           ELSE IF \A x \in notifs : x.id # prev[w]
           THEN \/ /\ steps' = [steps EXCEPT ![w] = Tail(@)]
                   /\ effects' = [effects EXCEPT
                                    ![w] = Append(@, Effect([s EXCEPT !.arg = "ErrNoEntries"],
                                                            FALSE))]
                   /\ UNCHANGED <<pc, hret, notifs>>
                \/ /\ Returned(w, s, FALSE)
                   /\ UNCHANGED notifs
           ELSE \E ok \in BOOLEAN :
                  /\ notifs' = IF ok THEN {x \in notifs : x.id # prev[w]}
                               ELSE notifs
                  /\ Returned(w, s, ok)
    /\ UNCHANGED <<env, result, invoked, prev, held, made, nextID, stream,
                   queues, inflight, wiped, calls, cancelled, statuses,
                   prepared,
                   follows, stats, cache>>

\* NotificationsClear: DB.DeleteNotifications(ctx, nil, authed.Account.ID, "")
ClearNotifs(w) ==
    /\ At(w, "DB.DeleteNotifications")
    /\ LET s == Head(steps[w])
       IN  \E ok \in BOOLEAN :
             /\ notifs' = IF ok THEN {x \in notifs : x.target # s.val}
                          ELSE notifs
             /\ Returned(w, s, ok)
    /\ UNCHANGED <<env, result, invoked, prev, held, made, nextID, stream,
                   queues, inflight, wiped, calls, cancelled, statuses,
                   prepared,
                   follows, stats, cache>>

\* The steps every notification model shares.
NotifySteps(w) ==
    \/ RunStep(w)
    \/ NotifyLock(w)
    \/ NotifyCheck(w)
    \/ NotifyPut(w)
    \/ NotifyUnlock(w)
    \/ NotifyPrepare(w)
    \/ NotifyStream(w)
    \/ HandlerEnd(w)
    \/ DispatchReturn(w)
    \/ Finish(w)

\* Concurrent Surface.Notify calls and Like deliveries; nothing deletes.
NextNotify ==
    \E w \in Workers :
        \/ CallNotify(w)
        \/ ReceiveLike(w)
        \/ Dispatch(w)
        \/ ReturnStep(w)
        \/ NotifyRemote(w)
        \/ NotifySteps(w)

SpecNotify == Init /\ [][NextNotify]_vars

\* Concurrent Surface.Notify calls, every running goroutine scheduled again
\* and a goroutine waiting for a key getting it once it is free often enough.
NotifyRuns(w) ==
    \/ NotifyRemote(w)
    \/ NotifyLock(w)
    \/ NotifyCheck(w)
    \/ NotifyPut(w)
    \/ NotifyUnlock(w)
    \/ NotifyPrepare(w)
    \/ NotifyStream(w)
    \/ HandlerEnd(w)
    \/ DispatchReturn(w)
    \/ Finish(w)

NextLock == \E w \in Workers : CallNotify(w) \/ NotifyRuns(w)

SpecLock ==
    /\ Init
    /\ [][NextLock]_vars
    /\ \A w \in Workers : WF_vars(NotifyRuns(w)) /\ SF_vars(NotifyLock(w))

\* Concurrent notifyFollowRequest and notifyFollow calls.
NextFollow ==
    \E w \in Workers :
        \/ CallFollow(w)
        \/ GetPrevNotif(w)
        \/ DeletePrevNotif(w)
        \/ NotifySteps(w)

SpecFollow == Init /\ [][NextFollow]_vars

\* Every writer of the notification table, concurrently.
NextStore ==
    \E w \in Workers :
        \/ CallNotify(w)
        \/ CallFollow(w)
        \/ CallClear(w)
        \/ GetPrevNotif(w)
        \/ DeletePrevNotif(w)
        \/ ClearNotifs(w)
        \/ NotifyRemote(w)
        \/ NotifySteps(w)

SpecStore == Init /\ [][NextStore]_vars

\* ------------------------------------------------------- the queue model
\* A worker processes a Delete message while producers push items that
\* reference the entity and other workers pop and run them.

\* Delete messages: the remote account deletes its reply S1 to alice or
\* itself, alice deletes her account.
DeleteMessages ==
    {Message("fedi", "Delete", "Note", "Status", "nil", FALSE, {},
             "alice", "rem", "S1", FALSE),
     Message("fedi", "Delete", "Profile", "Account", "nil", FALSE, {},
             "alice", "rem", "S1", FALSE),
     Message("client", "Delete", "Profile", "Account", "nil", FALSE, {},
             "alice", "alice", "S1", FALSE)}

\* Pending work about those entities: a client message targeting the status,
\* a federator message requested by the remote account, a delivery by alice.
QueueItems ==
    {Item("Client", "TargetURI", StatusURI("S1")),
     Item("Federator", "Requesting.ID", AccountID("rem")),
     Item("Delivery", "ActorID", AccountURI("alice"))}

\* The URI of the status or account that item i references.
EntityOf(i) ==
    IF \E a \in Accounts : i.key = AccountID(a)
    THEN AccountURI(CHOOSE a \in Accounts : i.key = AccountID(a))
    ELSE i.key

ReceiveDelete(w) ==
    /\ pc[w] = "idle"
    /\ \E e \in DeleteMessages : env' = [env EXCEPT ![w] = e]
    /\ pc' = [pc EXCEPT ![w] = "dispatch"]
    /\ UNCHANGED <<steps, effects, hret, result, invoked, prev, held, made,
                   notifs, nextID, stream, queues, inflight, wiped, calls, cancelled,
                   statuses, prepared,
                   follows, stats, cache>>

\* Queue.Push: a producer adds an item about an entity that still exists.
Enqueue ==
    \E i \in QueueItems :
        /\ EntityOf(i) \notin wiped
        /\ i \notin queues[i.queue]
        /\ queues' = [queues EXCEPT ![i.queue] = @ \cup {i}]
        /\ UNCHANGED <<pc, env, steps, effects, hret, result, invoked, prev,
                       held, made, notifs, nextID, stream, inflight, wiped,
                       calls, cancelled, statuses, prepared,
                   follows, stats, cache>>

\* Queue.PopCtx: a worker takes a pending item; no purge reaches it any more.
Dequeue(w) ==
    /\ pc[w] = "idle"
    /\ \E q \in DOMAIN queues : \E i \in queues[q] :
         /\ queues' = [queues EXCEPT ![q] = @ \ {i}]
         /\ inflight' = [inflight EXCEPT ![w] = <<i>>]
    /\ pc' = [pc EXCEPT ![w] = "item"]
    /\ UNCHANGED <<env, steps, effects, hret, result, invoked, prev, held,
                   made, notifs, nextID, stream, wiped, calls, cancelled,
                   statuses, prepared,
                   follows, stats, cache>>

\* The worker runs the item it popped.
Execute(w) ==
    /\ pc[w] = "item"
    /\ inflight' = [inflight EXCEPT ![w] = <<>>]
    /\ pc' = [pc EXCEPT ![w] = "idle"]
    /\ UNCHANGED <<env, steps, effects, hret, result, invoked, prev, held,
                   made, notifs, nextID, stream, queues, wiped, calls, cancelled,
                   statuses, prepared,
                   follows, stats, cache>>

NextQueue ==
    \/ Enqueue
    \/ \E w \in Workers :
        \/ ReceiveDelete(w)
        \/ Dequeue(w)
        \/ Execute(w)
        \/ Dispatch(w)
        \/ RunStep(w)
        \/ PurgeStep(w)
        \/ DeleteStep(w)
        \/ HandlerEnd(w)
        \/ DispatchReturn(w)
        \/ Finish(w)

SpecQueue == Init /\ [][NextQueue]_vars

\* ------------------------------------------------- the cancellation model
\* The caller cancels ctx while a handler runs.  No handler reads ctx itself:
\* it passes ctx on, and each call made with it succeeds or returns an error
\* as before.

CancellableMessages ==
    {Message("fedi", "Create", "Like", "StatusFave", "nil", FALSE, {},
             "alice", "rem", "S1", FALSE),
     Message("fedi", "Create", "Question", "PollVote", "nil", FALSE, {"local"},
             "alice", "rem", "S1", FALSE),
     Message("client", "Create", "Note", "Status", "nil", FALSE, {"reply"},
             "alice", "bob", "S1", FALSE),
     Message("client", "Create", "Block", "Block", "nil", FALSE, {},
             "alice", "bob", "S1", FALSE),
     Message("client", "Delete", "Note", "Status", "nil", FALSE, {},
             "alice", "bob", "S1", FALSE)}

ReceiveCancellable(w) ==
    /\ pc[w] = "idle"
    /\ \E e \in CancellableMessages : env' = [env EXCEPT ![w] = e]
    /\ pc' = [pc EXCEPT ![w] = "dispatch"]
    /\ UNCHANGED <<steps, effects, hret, result, invoked, prev, held, made,
                   notifs, nextID, stream, queues, inflight, wiped, calls,
                   cancelled, statuses, prepared,
                   follows, stats, cache>>

\* ctx is cancelled between two calls of the running handler.
Cancel(w) ==
    /\ pc[w] = "run"
    /\ steps[w] # <<>>
    /\ cancelled[w] = 0
    /\ cancelled' = [cancelled EXCEPT ![w] = Len(effects[w]) + 1]
    /\ UNCHANGED <<pc, env, steps, effects, hret, result, invoked, prev, held,
                   made, notifs, nextID, stream, queues, inflight, wiped, calls,
                   statuses, prepared,
                   follows, stats, cache>>

NextCancel ==
    \E w \in Workers :
        \/ ReceiveCancellable(w)
        \/ Cancel(w)
        \/ Dispatch(w)
        \/ RunStep(w)
        \/ PurgeStep(w)
        \/ DeleteStep(w)
        \/ HandlerEnd(w)
        \/ DispatchReturn(w)
        \/ Finish(w)

SpecCancel == Init /\ [][NextCancel]_vars

\* ------------------------------------------------ the status-creation model
\* Concurrent deliveries of new remote statuses.  The dereferencer inserts
\* the status; storage keeps one status per URI, and a caller whose insert
\* finds the URI taken gets the stored status with a nil statusable.

StatusURIs == {"S1", "S2"}

Dereferences == {"federate.RefreshStatus", "federate.GetStatusByURI"}

StatusMessages ==
    {Message("fedi", "Create", "Note", "Status", ap[1], ap[2], flags,
             "alice", "rem", st, FALSE) :
        ap \in {<<"Statusable", FALSE>>, <<"nil", TRUE>>},
        flags \in SUBSET {"reply"},
        st \in StatusURIs}

ReceiveStatus(w) ==
    /\ pc[w] = "idle"
    /\ \E e \in StatusMessages : env' = [env EXCEPT ![w] = e]
    /\ pc' = [pc EXCEPT ![w] = "dispatch"]
    /\ UNCHANGED <<steps, effects, hret, result, invoked, prev, held, made,
                   notifs, nextID, stream, queues, inflight, wiped, calls,
                   cancelled, statuses, prepared,
                   follows, stats, cache>>

\* federate.RefreshStatus / federate.GetStatusByURI of a new status.
Dereference(w) ==
    /\ pc[w] = "run"
    /\ steps[w] # <<>>
    /\ LET s == Head(steps[w])
           st == env[w].st
       IN  /\ s.op \in Dereferences
           /\ \/ /\ Returned(w, s, FALSE)
                 /\ statuses' \in {statuses, statuses \cup {st}}
                 /\ UNCHANGED env
              \/ /\ st \notin statuses
                 /\ statuses' = statuses \cup {st}
                 /\ Returned(w, s, TRUE)
                 /\ UNCHANGED env
              \/ /\ st \in statuses
                 /\ LET e == [env[w] EXCEPT !.flags = @ \cup {"raced"}]
                    IN  /\ env' = [env EXCEPT ![w] = e]
                        /\ steps' = [steps EXCEPT
                                       ![w] = Tail(HandlerSteps(HandlerOf(e), e))]
                 /\ effects' = [effects EXCEPT ![w] = Append(@, Effect(s, TRUE))]
                 /\ UNCHANGED <<pc, hret, statuses>>
    /\ UNCHANGED <<result, invoked, prev, held, made, notifs, nextID, stream,
                   queues, inflight, wiped, calls, cancelled, prepared,
                   follows, stats, cache>>

\* The calls of CreateStatus after the dereference.
RunAfterDereference(w) ==
    /\ pc[w] = "run"
    /\ steps[w] # <<>>
    /\ Head(steps[w]).op \notin Dereferences
    /\ RunStep(w)

NextCreate ==
    \E w \in Workers :
        \/ ReceiveStatus(w)
        \/ Dispatch(w)
        \/ Dereference(w)
        \/ RunAfterDereference(w)
        \/ HandlerEnd(w)
        \/ DispatchReturn(w)

SpecCreate == Init /\ [][NextCreate]_vars

\* ------------------------------------------------------- the reply model
\* Concurrent deliveries of the remote account's replies to a status of
\* alice, with the Surface functions spelled out; a reply may mention and
\* alice may have muted the thread.

ReceiveReply(w) ==
    /\ pc[w] = "idle"
    /\ calls < MaxCalls
    /\ calls' = calls + 1
    /\ \E st \in StatusURIs,
          flags \in {{"reply"}, {"reply", "mentions"},
                     {"reply", "mentions", "muted"}} :
          env' = [env EXCEPT
                    ![w] = Message("fedi", "Create", "Note", "Status",
                                   "Statusable", FALSE, flags, "alice", "rem",
                                   st, TRUE)]
    /\ pc' = [pc EXCEPT ![w] = "dispatch"]
    /\ UNCHANGED <<steps, effects, hret, result, invoked, prev, held, made,
                   notifs, nextID, stream, queues, inflight, wiped, cancelled,
                   statuses, prepared,
                   follows, stats, cache>>

NextReply ==
    \E w \in Workers :
        \/ ReceiveReply(w)
        \/ Dispatch(w)
        \/ Dereference(w)
        \/ RunAfterDereference(w)
        \/ NotifyLock(w)
        \/ NotifyCheck(w)
        \/ NotifyPut(w)
        \/ NotifyUnlock(w)
        \/ NotifyPrepare(w)
        \/ NotifyStream(w)
        \/ HandlerEnd(w)
        \/ DispatchReturn(w)
        \/ Finish(w)

SpecReply == Init /\ [][NextReply]_vars

\* ------------------------------------------------- the interaction model
\* Concurrent calls of notifyFave and notifyAnnounce for status S1: by its
\* author alice, by bob, and by bob when the author is the remote account;
\* the author may have muted the thread and the status passed to
\* notifyAnnounce may be no boost.
CallInteraction(w) ==
    \E name \in {"Surface.notifyFave", "Surface.notifyAnnounce"},
       who \in {<<"alice", "alice">>, <<"alice", "bob">>, <<"rem", "bob">>},
       flags \in SUBSET {"muted", "boost"} :
        /\ "boost" \in flags <=> name = "Surface.notifyAnnounce" /\ flags # {}
        /\ StartCall(w, [DirectCall(name, "", who[1], who[2], "S1")
                           EXCEPT !.flags = flags])

NextInteract ==
    \E w \in Workers :
        \/ CallInteraction(w)
        \/ NotifySteps(w)

SpecInteract == Init /\ [][NextInteract]_vars

\* ------------------------------------------------- the invalidation model
\* Surface.invalidateStatusFromTimelines(statusID) unprepares the item in
\* every home and every list timeline; timeline reads prepare items again.

TimelineTypes == {"Home", "List"}

\* An invalidation that would prepare what is not prepared.
UnprepareToggles(items, statusID) ==
    {x \in items : x[2] # statusID}
        \cup {<<tl, statusID>> : tl \in {y \in TimelineTypes :
                                           <<y, statusID>> \notin items}}

\* Timelines.Home / Timelines.List UnprepareItemFromAllTimelines(statusID)
Unprepare(items, statusID) == {x \in items : x[2] # statusID}

\* A timeline read prepares an item.
PrepareItem ==
    /\ \E x \in TimelineTypes \X StatusURIs :
          /\ x \notin prepared
          /\ prepared' = prepared \cup {x}
    /\ UNCHANGED <<pc, env, steps, effects, hret, result, invoked, prev, held,
                   made, notifs, nextID, stream, queues, inflight, wiped, calls,
                   cancelled, statuses, follows, stats, cache>>

\* A handler reaches its p.surface.invalidateStatusFromTimelines(ctx, id).
CallInvalidate(w) ==
    /\ pc[w] = "idle"
    /\ calls < MaxCalls
    /\ calls' = calls + 1
    /\ \E id \in StatusURIs :
          /\ env' = [env EXCEPT
                       ![w] = DirectCall("surface.invalidateStatusFromTimelines",
                                         "", "", "", id)]
          /\ steps' = [steps EXCEPT ![w] = <<Invalidate(id)>>]
    /\ invoked' = [invoked EXCEPT
                     ![w] = <<"surface.invalidateStatusFromTimelines">>]
    /\ pc' = [pc EXCEPT ![w] = "run"]
    /\ UNCHANGED <<effects, hret, result, prev, held, made, notifs, nextID,
                   stream, queues, inflight, wiped, cancelled, statuses,
                   prepared,
                   follows, stats, cache>>

InvalidateStep(w) ==
    /\ At(w, "surface.invalidateStatusFromTimelines")
    /\ prepared' = Unprepare(prepared, Head(steps[w]).val)
    /\ Returned(w, Head(steps[w]), TRUE)
    /\ UNCHANGED <<env, result, invoked, prev, held, made, notifs, nextID,
                   stream, queues, inflight, wiped, calls, cancelled, statuses,
                   follows, stats, cache>>

NextInvalidate ==
    \/ PrepareItem
    \/ \E w \in Workers :
          \/ CallInvalidate(w)
          \/ InvalidateStep(w)
          \/ HandlerEnd(w)
          \/ DispatchReturn(w)
          \/ Finish(w)

SpecInvalidate == Init /\ [][NextInvalidate]_vars

\* ------------------------------------------------------- the poll model
\* Concurrent Update/Note messages of both origins, with the Surface
\* functions spelled out: alice edits her status S1, the remote account its
\* status S2; the poll may have closed since the previous version.

ReceiveUpdate(w) ==
    /\ pc[w] = "idle"
    /\ calls < MaxCalls
    /\ calls' = calls + 1
    /\ \E origin \in {"fedi", "client"}, flags \in SUBSET {"pollClosing"} :
          env' = [env EXCEPT
                    ![w] = IF origin = "client"
                           THEN Message("client", "Update", "Note", "Status",
                                        "nil", FALSE, flags, "alice", "alice",
                                        "S1", TRUE)
                           ELSE Message("fedi", "Update", "Note", "Status",
                                        "Statusable", FALSE, flags, "alice",
                                        "rem", "S2", TRUE)]
    /\ pc' = [pc EXCEPT ![w] = "dispatch"]
    /\ UNCHANGED <<steps, effects, hret, result, invoked, prev, held, made,
                   notifs, nextID, stream, queues, inflight, wiped, cancelled,
                   statuses, prepared,
                   follows, stats, cache>>

NextPoll ==
    \E w \in Workers :
        \/ ReceiveUpdate(w)
        \/ Dispatch(w)
        \/ NotifySteps(w)

SpecPoll == Init /\ [][NextPoll]_vars

\* -------------------------------------------------- the no-entries model
\* The functions that look up rows that may be missing: DeleteStatus of both
\* origins, notifySignup, and notifyFollow next to the notifyFollowRequest
\* calls that make the rows it replaces.  DeleteStatus and notifySignup share
\* no row with the other calls, so they are taken while no other call runs;
\* the follow calls run concurrently with each other.

\* A worker takes the Delete of status S1, a reply or not, by its remote
\* author or by bob; the status may have lost the rows it refers to.
ReceiveDeleteStatus(w) ==
    /\ \A v \in Workers : pc[v] = "idle"
    /\ calls < MaxCalls
    /\ calls' = calls + 1
    /\ \E origin \in {"fedi", "client"}, flags \in SUBSET {"reply", "noEntries"} :
          env' = [env EXCEPT
                    ![w] = Message(origin, "Delete", "Note", "Status", "nil",
                                   FALSE, flags, "alice",
                                   IF origin = "fedi" THEN "rem" ELSE "bob",
                                   "S1", FALSE)]
    /\ pc' = [pc EXCEPT ![w] = "dispatch"]
    /\ UNCHANGED <<steps, effects, hret, result, invoked, prev, held, made,
                   notifs, nextID, stream, queues, inflight, wiped, cancelled,
                   statuses, prepared,
                   follows, stats, cache>>

\* CreateAccount calls notifySignup for bob's new account; the instance has
\* the moderator alice or none.
CallSignup(w) ==
    /\ \A v \in Workers : pc[v] = "idle"
    /\ \E flags \in SUBSET {"noEntries"} :
          StartCall(w, [DirectCall("Surface.notifySignup", "", "alice", "bob", "")
                          EXCEPT !.flags = flags])

\* notifyFollowRequest or notifyFollow is called next to calls of the two.
CallFollowConcurrently(w) ==
    /\ \A v \in Workers : pc[v] = "idle" \/ env[v] \in FollowCalls
    /\ CallFollow(w)

NextNoEntries ==
    \E w \in Workers :
        \/ ReceiveDeleteStatus(w)
        \/ CallSignup(w)
        \/ CallFollowConcurrently(w)
        \/ Dispatch(w)
        \/ PurgeStep(w)
        \/ DeleteStep(w)
        \/ GetPrevNotif(w)
        \/ DeletePrevNotif(w)
        \/ NotifySteps(w)

SpecNoEntries == Init /\ [][NextNoEntries]_vars

\* -------------------------------------------------- the visibility model
\* Processor.notifVisible applied to the notifications a page of
\* NotificationsGet can hold.

\* A notifVisible without the sign-up case.
notifVisibleNoBypass(e) ==
    LET yes == [err |-> FALSE, msg |-> <<"true">>]
        no  == [err |-> FALSE, msg |-> <<"false">>]
    IN  IF e.org # "" /\ "accountError" \in e.flags THEN Err(<<"false">>)
        ELSE IF e.org # "" /\ "accountHidden" \in e.flags THEN no
        ELSE IF e.st # "" /\ "statusError" \in e.flags THEN Err(<<"false">>)
        ELSE IF e.st # "" /\ "statusHidden" \in e.flags THEN no
        ELSE yes

\* Processor.notifVisible(ctx, n, acct): e.model is n.NotificationType, e.org
\* n.OriginAccount ("": nil), e.st n.Status ("": nil), e.tgt acct; e.flags
\* holds what filter.AccountVisible and filter.StatusVisible answer when they
\* do not answer (true, nil).  The value is (msg, err).
notifVisible(e) ==
    LET yes == [err |-> FALSE, msg |-> <<"true">>]
        no  == [err |-> FALSE, msg |-> <<"false">>]
    IN  IF e.org # "" /\ e.model = "admin.sign_up" THEN yes
        ELSE IF e.org # "" /\ "accountError" \in e.flags THEN Err(<<"false">>)
        ELSE IF e.org # "" /\ "accountHidden" \in e.flags THEN no
        ELSE IF e.st # "" /\ "statusError" \in e.flags THEN Err(<<"false">>)
        ELSE IF e.st # "" /\ "statusHidden" \in e.flags THEN no
        ELSE yes

\* NotificationsGet calls notifVisible for a notification of alice's page.  A
\* sign-up notification has no status.
CallVisible(w) ==
    /\ pc[w] = "idle"
    /\ \E ntype \in {"admin.sign_up", "follow", "favourite", "mention"},
          org \in {"", "bob", "rem"}, st \in {"", "S1"},
          av \in {{}, {"accountHidden"}, {"accountError"}},
          sv \in {{}, {"statusHidden"}, {"statusError"}} :
          /\ ntype = "admin.sign_up" => st = ""
          /\ LET e == [DirectCall("Processor.notifVisible", ntype, "alice",
                                  org, st) EXCEPT !.flags = av \cup sv]
             IN  /\ env' = [env EXCEPT ![w] = e]
                 /\ result' = [result EXCEPT ![w] = notifVisible(e)]
    /\ invoked' = [invoked EXCEPT ![w] = <<"Processor.notifVisible">>]
    /\ pc' = [pc EXCEPT ![w] = "done"]
    /\ UNCHANGED <<steps, effects, hret, prev, held, made, notifs, nextID,
                   stream, queues, inflight, wiped, calls, cancelled, statuses,
                   prepared,
                   follows, stats, cache>>

NextVisible == \E w \in Workers : CallVisible(w) \/ Finish(w)

SpecVisible == Init /\ [][NextVisible]_vars

\* The dispatchers, one message at a time, every call of every handler
\* succeeding or failing.
NextDispatch ==
    \E w \in Workers :
        \/ ReceiveFromFediAPI(w)
        \/ ReceiveFromClientAPI(w)
        \/ Dispatch(w)
        \/ RunStep(w)
        \/ PurgeStep(w)
        \/ DeleteStep(w)
        \/ ReturnStep(w)
        \/ HandlerEnd(w)
        \/ DispatchReturn(w)
        \/ Finish(w)

SpecDispatch == Init /\ [][NextDispatch]_vars

\* ------------------------------------------------- properties: dispatchers

\* Worker w has processed a queue message to the end.
Processed(w) == pc[w] = "done" /\ env[w].origin \in {"fedi", "client"}

\* The calls worker w's handler has made before its i-th.
Before(w, i) == {effects[w][j] : j \in 1..(i - 1)}

\* <<queue, index, key>> of the purges worker w made before its i-th call.
PurgesBefore(w, i) ==
    {<<x.tgt, x.arg, x.val>> : x \in {y \in Before(w, i) : y.op = "Queue.Delete"}}

\* C7: a message whose (activity type, object type) pair has no registered
\* handler invokes no handler, makes no call, and is answered with an error
\* that names both types; it is never answered with nil.
UnhandledPairIsAnError ==
    \A w \in Workers :
        (Processed(w) /\ HandlerOf(env[w]) = "")
        => /\ result[w].err
           /\ \E i, j \in DOMAIN result[w].msg :
                /\ i # j
                /\ result[w].msg[i] = env[w].verb
                /\ result[w].msg[j] = env[w].obj
           /\ invoked[w] = <<>>
           /\ effects[w] = <<>>
           /\ steps[w] = <<>>

\* C7 witness: the federation dispatcher has answered Undo/Follow, a pair only
\* the client dispatcher handles.
UnhandledPairSeen ==
    \E w \in Workers :
        /\ Processed(w)
        /\ env[w].origin = "fedi"
        /\ env[w].verb = "Undo"
        /\ env[w].obj = "Follow"
        /\ result[w].err

\* C8: a message whose pair is registered has exactly one handler invoked,
\* once, and the dispatcher's result is that handler's result unchanged.
RegisteredPairRunsOneHandler ==
    \A w \in Workers :
        (Processed(w) /\ HandlerOf(env[w]) # "")
        => /\ invoked[w] = <<HandlerOf(env[w])>>
           /\ hret[w] # NoRet
           /\ result[w] = hret[w]

\* C8 witness: UndoAnnounce returned an error after some of its calls and the
\* dispatcher returned that error.
HandlerErrorReturned ==
    \E w \in Workers :
        /\ Processed(w)
        /\ invoked[w] = <<"clientAPI.UndoAnnounce">>
        /\ effects[w] # <<>>
        /\ result[w].err
        /\ result[w] = hret[w]

\* Worker w's handler is running or has returned.
InHandler(w) ==
    /\ pc[w] \in {"run", "hreturn", "done"}
    /\ env[w].origin \in {"fedi", "client"}
    /\ HandlerOf(env[w]) # ""

\* C9 as stated: in every handler a payload or model of another type than the
\* handler expects makes it return an error before any call, the updated
\* object of federation-origin UpdateStatus and the model of client-origin
\* DeleteAccount included.
EveryCastFailureReturnsFirst ==
    \A w \in Workers :
        (/\ InHandler(w)
         /\ \/ CheckedMismatch(HandlerOf(env[w]), env[w])
            \/ UncheckedMismatch(HandlerOf(env[w]), env[w]))
        => /\ effects[w] = <<>>
           /\ pc[w] = "done" => result[w].err

\* C9 amended: a handler that checks its type assertion returns an error
\* before any call when the assertion fails.  Federation-origin UpdateStatus
\* does not check its object's assertion and goes on to RefreshStatus with a
\* nil object; client-origin DeleteAccount takes a model of any type, deletes
\* the account on behalf of the origin account, and returns nil.
CheckedCastFailureReturnsFirst ==
    \A w \in Workers :
        /\ (InHandler(w) /\ CheckedMismatch(HandlerOf(env[w]), env[w]))
           => /\ effects[w] = <<>>
              /\ pc[w] = "done" => result[w].err
        /\ (/\ Processed(w)
            /\ UncheckedMismatch(HandlerOf(env[w]), env[w]))
           => /\ effects[w] # <<>>
              /\ HandlerOf(env[w]) = "fediAPI.UpdateStatus"
                 => /\ effects[w][1].op = "federate.RefreshStatus"
                    /\ effects[w][1].arg = "nil"
              /\ HandlerOf(env[w]) = "clientAPI.DeleteAccount"
                 => /\ result[w] = Nil
                    /\ \E i \in DOMAIN effects[w] :
                         /\ effects[w][i].op = "account.Delete"
                         /\ effects[w][i].arg = AccountID(env[w].org)

\* C9 witness: CreatePollVote was handed a Status and returned its error
\* with no call made.
CastFailureSeen ==
    \E w \in Workers :
        /\ Processed(w)
        /\ invoked[w] = <<"fediAPI.CreatePollVote">>
        /\ env[w].model = "Status"
        /\ result[w].err
        /\ effects[w] = <<>>

\* The calls the spec names as primary effects.
PrimaryEffects ==
    {"DB.PutPollVote", "DB.AcceptFollowRequest", "utils.wipeStatus",
     "account.Delete", "DB.DeleteStatusByID"}

\* The primary effects whose error the handler only logs.
LoggedPrimaryEffects == {"utils.wipeStatus", "account.Delete"}

\* Worker w's handler stopped at its failed i-th call and returns an error.
AbortedAt(w, i) ==
    /\ i = Len(effects[w])
    /\ pc[w] \in {"hreturn", "done"}
    /\ hret[w].err
    /\ pc[w] = "done" => result[w].err

\* C10 as stated: when the primary effect fails (persisting a poll vote,
\* accepting a follow request, wiping a status, deleting an account, deleting
\* a boost) the handler returns an error and makes no later call.
PrimaryFailureAborts ==
    \A w \in Workers : \A i \in DOMAIN effects[w] :
        (/\ InHandler(w)
         /\ effects[w][i].op \in PrimaryEffects
         /\ ~effects[w][i].ok)
        => AbortedAt(w, i)

\* C10 amended: a failed poll-vote insert, follow-request accept or boost
\* delete makes the handler return an error with no later call; a failed
\* wipeStatus or account.Delete is logged, the handler makes its remaining
\* calls and returns nil.
PersistFailureAbortsDeleteFailureLogged ==
    \A w \in Workers : \A i \in DOMAIN effects[w] :
        (InHandler(w) /\ ~effects[w][i].ok)
        => /\ effects[w][i].op \in PrimaryEffects \ LoggedPrimaryEffects
              => AbortedAt(w, i)
           /\ effects[w][i].op \in LoggedPrimaryEffects
              => /\ pc[w] = "run" \/ hret[w] = Nil
                 /\ pc[w] = "done" => result[w] = Nil
                 /\ (pc[w] = "done" /\ effects[w][i].op = "utils.wipeStatus")
                    => \E j \in DOMAIN effects[w] :
                         /\ j > i
                         /\ effects[w][j].op = "utils.decrementStatusesCount"

\* C10 witness: a poll vote could not be stored and the handler returned the
\* error as its last act.
PrimaryFailureSeen ==
    \E w \in Workers :
        /\ Processed(w)
        /\ invoked[w] = <<"fediAPI.CreatePollVote">>
        /\ Len(effects[w]) = 1
        /\ effects[w][1].op = "DB.PutPollVote"
        /\ ~effects[w][1].ok
        /\ result[w].err

\* The number of calls worker w's handler has made or is about to make.
Reached(w) ==
    Len(effects[w]) + (IF pc[w] = "run" /\ steps[w] # <<>> THEN 1 ELSE 0)

\* The i-th call of worker w's handler: made, or the one it is about to make.
CallAt(w, i) ==
    IF i <= Len(effects[w]) THEN effects[w][i]
    ELSE Effect(Head(steps[w]), TRUE)

\* C4: in both DeleteStatus handlers the purges keyed by the status URI
\* (delivery queue by ObjectID and by TargetID, client queue by TargetURI,
\* federator queue by TargetURI) have all been made before wipeStatus is
\* invoked, on every execution that reaches the wipe.
PurgesPrecedeWipe ==
    \A w \in Workers : \A i \in 1..Reached(w) :
        CallAt(w, i).op = "utils.wipeStatus"
        => {<<"Delivery", "ObjectID", CallAt(w, i).val>>,
            <<"Delivery", "TargetID", CallAt(w, i).val>>,
            <<"Client", "TargetURI", CallAt(w, i).val>>,
            <<"Federator", "TargetURI", CallAt(w, i).val>>}
           \subseteq PurgesBefore(w, i)

\* C4 witness: the federation-origin DeleteStatus has wiped the status.
WipeSeen ==
    \E w \in Workers : \E i \in DOMAIN effects[w] :
        /\ invoked[w] = <<"fediAPI.DeleteStatus">>
        /\ effects[w][i].op = "utils.wipeStatus"
        /\ effects[w][i].ok
        /\ Cardinality(PurgesBefore(w, i)) = 4

Unique ==
    \A x, y \in notifs :
        (/\ x.ntype = y.ntype
         /\ x.target = y.target
         /\ x.origin = y.origin
         /\ x.status = y.status) => x.id = y.id

\* The stored notifications of the tuple of Notify call x.
Stored(x) == Matching(x.arg, AccountID(x.tgt), AccountID(x.org), x.val)

\* The Surface.Notify calls for a local target that have returned to worker
\* w's running function.
NotifyReturns(w) ==
    {effects[w][i] : i \in {j \in DOMAIN effects[w] :
                               /\ effects[w][j].op = "Notify"
                               /\ IsLocal(effects[w][j].tgt)}}

\* Every call has returned.
Quiet == \A w \in Workers : pc[w] \in {"idle", "done"}

\* C1 as stated: once all Surface.Notify calls for a tuple with a local
\* target have returned, exactly one notification is stored for the tuple.
ExactlyOneOnceAllReturned ==
    Quiet => \A w \in Workers : \A x \in NotifyReturns(w) :
                Cardinality(Stored(x)) = 1

\* C1 amended: with nothing deleting notifications, at most one notification
\* is ever stored for a tuple, whatever the number and interleaving of the
\* calls, and exactly one is stored once a call for the tuple has returned
\* nil; a call whose existence check or insert fails returns the error and
\* stores nothing, so calls that all fail leave none.
AtMostOneAndOneAfterNil ==
    /\ Unique
    /\ \A w \in Workers : \A x \in NotifyReturns(w) :
          x.ok => Cardinality(Stored(x)) = 1

\* C1 witness: two deliveries of the same Like have both been processed, the
\* Notify call of each returned nil, one stored the notification and the
\* other found it.
TwoLikesOneNotification ==
    \E w, v \in Workers :
        /\ w # v
        /\ pc[w] = "done" /\ pc[v] = "done"
        /\ invoked[w] = <<"fediAPI.CreateLike">>
        /\ invoked[v] = <<"fediAPI.CreateLike">>
        /\ \E x \in NotifyReturns(w) : x.ok
        /\ \E x \in NotifyReturns(v) : x.ok
        /\ made[w] # 0
        /\ made[v] = 0
        /\ Cardinality(notifs) = 1

\* The account with ID id.
AccountOf(id) == CHOOSE a \in Accounts : AccountID(a) = id

\* The lock key of stored notification x's tuple.
NotificationKey(x) ==
    getNotifyLockURI(x.ntype, AccountOf(x.target), AccountOf(x.origin), x.status)

\* C2: under any interleaving of Notify, notifyFollowRequest, notifyFollow
\* (which deletes outside the key lock) and NotificationsClear, the store
\* never holds two notifications of one (type, target, origin, status) tuple,
\* and every step that inserts a notification is taken while some worker
\* holds the key lock of that notification's tuple, which no other worker
\* holds at the same time.
UniqueAndInsertedUnderLock ==
    /\ [](Unique /\ \A w, v \in Workers :
                       (w # v /\ held[w] # "") => held[w] # held[v])
    /\ [][\A x \in notifs' \ notifs :
             \E w \in Workers : /\ held[w] = NotificationKey(x)
                                /\ pc[w] = "N_put"
                                /\ made'[w] = x.id]_vars

\* C2 witness: one worker has cleared alice's notifications while another,
\* holding a key lock, has just inserted one.
InsertAfterClear ==
    \E w, v \in Workers :
        /\ w # v
        /\ \E i \in DOMAIN effects[v] :
             effects[v][i].op = "DB.DeleteNotifications" /\ effects[v][i].ok
        /\ pc[w] = "N_unlock"
        /\ held[w] # ""
        /\ \E x \in notifs : x.id = made[w] /\ NotificationKey(x) = held[w]

\* notifyFollow has returned nil to worker w for a local target.
FollowNotified(w) ==
    /\ pc[w] = "done"
    /\ invoked[w] = <<"Surface.notifyFollow">>
    /\ IsLocal(env[w].tgt)
    /\ result[w] = Nil

FollowRequestNotifs(w) ==
    Matching(NotificationFollowRequest, AccountID(env[w].tgt),
             AccountID(env[w].org), "")

FollowNotifs(w) ==
    Matching(NotificationFollow, AccountID(env[w].tgt),
             AccountID(env[w].org), "")

SecondaryEffects ==
    {"surface.notifyFollowRequest", "surface.notifyFollow",
     "surface.notifyFave", "surface.notifyAnnounce", "surface.notifySignup",
     "surface.notifyPollClose", "surface.timelineAndNotifyStatus",
     "surface.timelineStatusUpdate", "surface.deleteStatusFromTimelines",
     "surface.emailAdminNewSignup", "surface.emailUserPleaseConfirm",
     "surface.emailAdminReportOpened", "surface.emailUserReportClosed",
     "surface.emailUserSignupApproved", "surface.emailUserSignupRejected",
     "federate.CreateStatus", "federate.UpdateStatus",
     "federate.CreatePollVote", "federate.Follow", "federate.Like",
     "federate.Announce", "federate.Block", "federate.UpdateAccount",
     "federate.AcceptFollow", "federate.RejectFollow", "federate.UndoFollow",
     "federate.UndoBlock", "federate.UndoLike", "federate.UndoAnnounce",
     "federate.DeleteStatus", "federate.DeleteAccount", "federate.Flag",
     "federate.MoveAccount",
     "utils.incrementStatusesCount", "utils.decrementStatusesCount",
     "utils.incrementFollowersCount", "utils.decrementFollowersCount",
     "utils.incrementFollowingCount", "utils.decrementFollowingCount",
     "utils.incrementFollowRequestsCount", "utils.decrementFollowRequestsCount",
     "Timelines.Home.WipeItemsFromAccountID",
     "Timelines.List.WipeItemsFromAccountID"}

\* The secondary effects whose error the handler returns.
ReturnedSecondaryEffects ==
    {<<"clientAPI.CreateBlock", "Timelines.Home.WipeItemsFromAccountID">>,
     <<"clientAPI.MoveAccount", "federate.MoveAccount">>}

\* Worker w's handler made a secondary effect as its i-th call and it failed.
SecondaryFailedAt(w, i) ==
    /\ InHandler(w)
    /\ effects[w][i].op \in SecondaryEffects
    /\ ~effects[w][i].ok

\* C11 as stated: in every handler a failed secondary effect never ends the
\* handler and never becomes its return value.
SecondaryFailureNeverReturned ==
    \A w \in Workers : \A i \in DOMAIN effects[w] :
        SecondaryFailedAt(w, i)
        => ~(/\ i = Len(effects[w])
             /\ pc[w] \in {"hreturn", "done"}
             /\ hret[w].err)

\* C11 amended: a failed secondary effect is logged, every later call of the
\* handler is still made and the handler returns nil unless a prerequisite
\* or primary effect fails later; except that client-origin CreateBlock
\* returns the error of either home-timeline wipe (and skips federate.Block)
\* and client-origin MoveAccount returns the error of federate.MoveAccount
\* (and skips DB.UpdateMove).
SecondaryFailureLoggedButTwo ==
    \A w \in Workers : \A i \in DOMAIN effects[w] :
        SecondaryFailedAt(w, i)
        => IF <<HandlerOf(env[w]), effects[w][i].op>> \in ReturnedSecondaryEffects
           THEN AbortedAt(w, i)
           ELSE /\ pc[w] \in {"hreturn", "done"}
                   => \/ /\ hret[w] = Nil
                         /\ Len(effects[w])
                              = Len(HandlerSteps(HandlerOf(env[w]), env[w]))
                      \/ /\ hret[w].err
                         /\ i < Len(effects[w])
                         /\ ~effects[w][Len(effects[w])].ok
                         /\ effects[w][Len(effects[w])].op \notin SecondaryEffects
                \* calls are made in the handler's order
                /\ \A j \in DOMAIN effects[w] :
                     effects[w][j].op
                       = HandlerSteps(HandlerOf(env[w]), env[w])[j].op

\* C11 witness: client-origin CreateStatus could not update the statuses
\* count, went on to federate the status and returned nil.
SecondaryFailureSeen ==
    \E w \in Workers :
        /\ Processed(w)
        /\ invoked[w] = <<"clientAPI.CreateStatus">>
        /\ Len(effects[w]) >= 2
        /\ ~effects[w][1].ok
        /\ effects[w][1].op = "utils.incrementStatusesCount"
        /\ effects[w][Len(effects[w])].op = "federate.CreateStatus"
        /\ result[w] = Nil

\* ------------------------------------------------ properties: cancellation

\* The calls of worker w's handler that failed after ctx was cancelled.
FailedAfterCancel(w) ==
    {i \in DOMAIN effects[w] : i >= cancelled[w] /\ ~effects[w][i].ok}

\* C12 as stated: a handler whose ctx was cancelled while it ran, and some of
\* whose calls failed after that, returns a non-nil error.
CancelledHandlerReturnsError ==
    \A w \in Workers :
        (/\ Processed(w)
         /\ cancelled[w] # 0
         /\ FailedAfterCancel(w) # {})
        => result[w].err

\* C12 amended: no handler looks at ctx.  A handler whose ctx is cancelled
\* returns an error only when a call whose error it returns (a prerequisite,
\* an aborting primary effect, the home-timeline wipes of client-origin
\* CreateBlock) fails afterwards; when only logged calls fail after the
\* cancellation (for example notifyFave in CreateLike) it logs them, makes
\* its remaining calls and returns nil.
CancelledHandlerLogsAndReturnsNil ==
    \A w \in Workers :
        (Processed(w) /\ cancelled[w] # 0)
        => LET logged(i) ==
                   /\ effects[w][i].op \in SecondaryEffects \cup LoggedPrimaryEffects
                   /\ <<HandlerOf(env[w]), effects[w][i].op>>
                        \notin ReturnedSecondaryEffects
           IN  /\ (\A i \in FailedAfterCancel(w) : logged(i))
                  => /\ result[w] = Nil
                     /\ Len(effects[w])
                          = Len(HandlerSteps(HandlerOf(env[w]), env[w]))
               /\ \A i \in FailedAfterCancel(w) :
                     ~logged(i) => (result[w].err /\ i = Len(effects[w]))

\* C12 witness: ctx was cancelled before CreateLike called notifyFave, the
\* call failed, and CreateLike returned nil.
CancelledLikeReturnedNil ==
    \E w \in Workers :
        /\ Processed(w)
        /\ invoked[w] = <<"fediAPI.CreateLike">>
        /\ cancelled[w] = 2
        /\ Len(effects[w]) = 3
        /\ effects[w][2].op = "surface.notifyFave"
        /\ ~effects[w][2].ok
        /\ effects[w][3].op = "surface.invalidateStatusFromTimelines"
        /\ result[w] = Nil

\* ------------------------------------------------------ properties: blocks

\* <<operation, first argument, second argument>> of each call worker w's
\* handler has made, in order.
CallsOf(w) ==
    [i \in DOMAIN effects[w] |->
        <<effects[w][i].op, effects[w][i].arg, effects[w][i].val>>]

\* The eight removals of a block of account b by account a, in order.
BlockRemovals(a, b) ==
    <<<<"Timelines.Home.WipeItemsFromAccountID", a, b>>,
      <<"Timelines.Home.WipeItemsFromAccountID", b, a>>,
      <<"Timelines.List.WipeItemsFromAccountID", a, b>>,
      <<"Timelines.List.WipeItemsFromAccountID", b, a>>,
      <<"DB.DeleteFollow", a, b>>,
      <<"DB.DeleteFollow", b, a>>,
      <<"DB.DeleteFollowRequest", a, b>>,
      <<"DB.DeleteFollowRequest", b, a>>>>

\* Worker w has processed a well-typed Block with handler h.
BlockProcessed(w, h) ==
    /\ Processed(w)
    /\ invoked[w] = <<h>>
    /\ env[w].model = "Block"

\* C13 as stated: client-origin CreateBlock attempts the home and list
\* timeline wipes and the Follow and FollowRequest deletions, in both
\* directions, whichever of them fails.
ClientBlockAttemptsAllRemovals ==
    \A w \in Workers :
        BlockProcessed(w, "clientAPI.CreateBlock")
        => \A k \in 1..8 :
              \E i \in DOMAIN effects[w] :
                  CallsOf(w)[i] = BlockRemovals(env[w].org, env[w].tgt)[k]

\* C13 amended: client-origin CreateBlock wipes only the home timelines, in
\* both directions, and then federates the block; it wipes no list timeline
\* and deletes no Follow or FollowRequest.  A home-timeline wipe that fails
\* ends the handler with an error, so the second wipe and the federation are
\* not attempted after a failed first wipe.
ClientBlockWipesHomeTimelinesOnly ==
    \A w \in Workers :
        BlockProcessed(w, "clientAPI.CreateBlock")
        => LET a == env[w].org
               b == env[w].tgt
               all == <<<<"Timelines.Home.WipeItemsFromAccountID", a, b>>,
                        <<"Timelines.Home.WipeItemsFromAccountID", b, a>>,
                        <<"federate.Block", "", "">>>>
               n == Len(effects[w])
           IN  /\ n \in 1..3
               /\ CallsOf(w) = SubSeq(all, 1, n)
               /\ \A i \in 1..n :
                     (i <= 2 /\ ~effects[w][i].ok) => (n = i /\ result[w].err)
               /\ (\A i \in 1..n : i <= 2 => effects[w][i].ok)
                     => (n = 3 /\ result[w] = Nil)

\* C13 witness: the first home-timeline wipe of a client-origin block failed
\* and the handler returned its error after that one call.
ClientBlockFirstWipeFailed ==
    \E w \in Workers :
        /\ BlockProcessed(w, "clientAPI.CreateBlock")
        /\ Len(effects[w]) = 1
        /\ effects[w][1].op = "Timelines.Home.WipeItemsFromAccountID"
        /\ ~effects[w][1].ok
        /\ result[w].err

\* C14: federation-origin CreateBlock with a well-typed Block attempts the
\* eight removals (home wipe both ways, list wipe both ways, DeleteFollow both
\* ways, DeleteFollowRequest both ways) in that order whichever of them fail,
\* and returns nil.
FediBlockAttemptsEightRemovals ==
    \A w \in Workers :
        BlockProcessed(w, "fediAPI.CreateBlock")
        => /\ CallsOf(w) = BlockRemovals(env[w].org, env[w].tgt)
           /\ result[w] = Nil

\* C14 witness: a federation-origin block whose first wipe and first Follow
\* deletion failed has made all eight calls and returned nil.
FediBlockFailuresSeen ==
    \E w \in Workers :
        /\ BlockProcessed(w, "fediAPI.CreateBlock")
        /\ env[w].org # env[w].tgt
        /\ Len(effects[w]) = 8
        /\ ~effects[w][1].ok
        /\ ~effects[w][5].ok
        /\ ~effects[w][8].ok
        /\ result[w] = Nil

\* ------------------------------------------------- properties: MoveAccount

\* Worker w runs or has run clientAPI.MoveAccount.
Moving(w) ==
    /\ pc[w] \in {"run", "hreturn", "done"}
    /\ invoked[w] = <<"clientAPI.MoveAccount">>

\* Worker w's i-th call was op, and it succeeded / failed.
Succeeded(w, i, op) ==
    i \in DOMAIN effects[w] /\ effects[w][i].op = op /\ effects[w][i].ok

Failed(w, i, op) ==
    i \in DOMAIN effects[w] /\ effects[w][i].op = op /\ ~effects[w][i].ok

\* The Move's SucceededAt has been set in memory / written to storage.
SucceededAtInMemory(w) ==
    \E i \in DOMAIN effects[w] : Succeeded(w, i, "Move.SucceededAt")

SucceededAtInStorage(w) ==
    \E i \in DOMAIN effects[w] : Succeeded(w, i, "DB.UpdateMove")

\* C15: in client-origin MoveAccount SucceededAt is set, in memory and in
\* storage, only after federate.MoveAccount has returned success; when
\* populating the Move or the federation send fails SucceededAt is left as it
\* was and the handler returns an error.
SucceededAtOnlyAfterFederation ==
    \A w \in Workers :
        Moving(w)
        => /\ \A i \in DOMAIN effects[w] :
                 effects[w][i].op \in {"Move.SucceededAt", "DB.UpdateMove"}
                 => \E j \in 1..(i - 1) : Succeeded(w, j, "federate.MoveAccount")
           /\ \A i \in DOMAIN effects[w] :
                 (Failed(w, i, "DB.PopulateMove")
                    \/ Failed(w, i, "federate.MoveAccount"))
                 => /\ ~SucceededAtInMemory(w)
                    /\ ~SucceededAtInStorage(w)
                    /\ hret[w].err
                    /\ pc[w] = "done" => result[w].err

\* C15 witness: the federation send of a MoveAccount failed, and the handler
\* has returned an error with SucceededAt not set.
MoveFederationFailed ==
    \E w \in Workers :
        /\ Moving(w)
        /\ pc[w] = "done"
        /\ Failed(w, 3, "federate.MoveAccount")
        /\ ~SucceededAtInMemory(w)
        /\ result[w].err

\* --------------------------------------------- properties: follow requests

\* <<operation, first argument>> of each call worker w's handler has made.
OpsOf(w) ==
    [i \in DOMAIN effects[w] |-> <<effects[w][i].op, effects[w][i].arg>>]

\* The calls of CreateFollowReq for a locked and for an unlocked target.
LockedFollowReqCalls ==
    <<<<"DB.PopulateFollowRequest", "">>,
      <<"surface.notifyFollowRequest", "">>,
      <<"utils.incrementFollowRequestsCount", "Receiving">>>>

UnlockedFollowReqCalls ==
    <<<<"DB.PopulateFollowRequest", "">>,
      <<"DB.AcceptFollowRequest", "">>,
      <<"utils.incrementFollowersCount", "Receiving">>,
      <<"utils.incrementFollowingCount", "Requesting">>,
      <<"federate.AcceptFollow", "">>,
      <<"surface.notifyFollow", "">>>>

\* Worker w has processed a well-typed follow request from the federation.
FollowReqProcessed(w) ==
    /\ Processed(w)
    /\ invoked[w] = <<"fediAPI.CreateFollowReq">>
    /\ env[w].model = "FollowRequest"

\* C16: federation-origin CreateFollowReq.  For a locked target the only
\* calls after populating are notifyFollowRequest and the follow-requests
\* counter: no Follow is created, no followers or following counter is
\* updated, no Accept is federated.  For an unlocked target the request is
\* accepted, then the followers counter of the receiving account and the
\* following counter of the requesting account are each updated once, the
\* Accept is federated and notifyFollow is called, and the handler returns
\* nil; when accepting fails no counter is updated and the error is returned.
FollowReqLockedNotifiesUnlockedAccepts ==
    \A w \in Workers :
        FollowReqProcessed(w)
        => LET all == IF "locked" \in env[w].flags
                      THEN LockedFollowReqCalls ELSE UnlockedFollowReqCalls
               n == Len(effects[w])
               aborting == {"DB.PopulateFollowRequest", "DB.AcceptFollowRequest"}
               failed == {i \in 1..n : /\ effects[w][i].op \in aborting
                                       /\ ~effects[w][i].ok}
           IN  /\ n \in 1..Len(all)
               /\ OpsOf(w) = SubSeq(all, 1, n)
               /\ failed = {} => (n = Len(all) /\ result[w] = Nil)
               /\ \A i \in failed : n = i /\ result[w].err

\* C16 witness: an unlocked target's request was accepted, every later call
\* was made and succeeded, and the handler returned nil.
FollowReqAccepted ==
    \E w \in Workers :
        /\ FollowReqProcessed(w)
        /\ "locked" \notin env[w].flags
        /\ Len(effects[w]) = 6
        /\ Succeeded(w, 2, "DB.AcceptFollowRequest")
        /\ Succeeded(w, 3, "utils.incrementFollowersCount")
        /\ Succeeded(w, 4, "utils.incrementFollowingCount")
        /\ Succeeded(w, 5, "federate.AcceptFollow")
        /\ invoked[w] = <<"fediAPI.CreateFollowReq">>
        /\ result[w] = Nil

\* --------------------------------------------- properties: status creation

\* Worker w has processed a federation-origin CreateStatus.
StatusProcessed(w) ==
    /\ Processed(w)
    /\ invoked[w] = <<"fediAPI.CreateStatus">>

\* Worker w's CreateStatus has called op.
Called(w, op) == \E i \in DOMAIN effects[w] : effects[w][i].op = op

\* Worker w has timelined and notified the status of its message.
Timelined(w) ==
    /\ invoked[w] = <<"fediAPI.CreateStatus">>
    /\ Called(w, "surface.timelineAndNotifyStatus")

\* C17: when the dereference returns a nil statusable and no error (another
\* worker created the status) federation-origin CreateStatus returns nil
\* having made no other call: no statuses-count increment, no invalidation,
\* no timelining and notifying.  Of the workers that deliver one new status,
\* at most one timelines and notifies it.
LosingWorkerDoesNothing ==
    /\ \A w \in Workers :
          (StatusProcessed(w) /\ "raced" \in env[w].flags)
          => /\ Len(effects[w]) = 1
             /\ effects[w][1].op \in Dereferences
             /\ effects[w][1].ok
             /\ result[w] = Nil
    /\ \A w, v \in Workers :
          (w # v /\ env[w].st = env[v].st) => ~(Timelined(w) /\ Timelined(v))

\* C17 witness: two workers have delivered the same status; one timelined
\* and notified it, the other got a nil statusable and returned nil after the
\* dereference.
TwoDeliveriesOneTimelined ==
    \E w, v \in Workers :
        /\ w # v
        /\ StatusProcessed(w)
        /\ StatusProcessed(v)
        /\ env[w].st = env[v].st
        /\ Timelined(w)
        /\ "raced" \in env[v].flags
        /\ Len(effects[v]) = 1
        /\ result[v] = Nil

\* ----------------------------------------------- properties: Surface.Notify

\* Worker w is inside Surface.Notify, past the remote-target test.
InNotify(w) ==
    pc[w] \in {"N_check", "N_put", "N_unlock", "N_filters", "N_convert",
               "N_stream"}

\* Worker w takes a step of a Surface.Notify call for a remote target.
RemoteNotifyStep(w) ==
    /\ AtNotify(w)
    /\ IsRemote(Head(steps[w]).tgt)
    /\ <<pc[w], steps[w], effects[w], held[w]>>
         # <<pc'[w], steps'[w], effects'[w], held'[w]>>

\* C18: Surface.Notify for a remote target account returns nil in one step:
\* it takes no lock, never reaches the existence check, the insert or the
\* push, and leaves the stored notifications and the stream as they were.
RemoteTargetReturnsNilUntouched ==
    [][\A w \in Workers :
          RemoteNotifyStep(w)
          => /\ effects'[w] = Append(effects[w], Effect(Head(steps[w]), TRUE))
             /\ steps'[w] = Tail(steps[w])
             /\ pc'[w] = "run"
             /\ ~InNotify(w)'
             /\ UNCHANGED <<held, made, notifs, nextID, stream, prepared>>]_vars

\* C18 witness: a Surface.Notify call for a remote target has returned nil
\* with nothing stored and nothing pushed.
RemoteNotifyReturned ==
    \E w \in Workers : \E i \in DOMAIN effects[w] :
        /\ effects[w][i].op = "Notify"
        /\ IsRemote(effects[w][i].tgt)
        /\ effects[w][i].ok
        /\ notifs = {}
        /\ stream = <<>>

\* Worker w's Notify is fetching the filters, converting or streaming.
Pushing(w) == pc[w] \in {"N_filters", "N_convert", "N_stream"}

\* C19: Surface.Notify releases the key lock right after the notification is
\* persisted: a worker holds a lock only from taking it to the unlock that
\* follows the insert, never while the filters are fetched, the notification
\* is converted or the push runs, so a worker that waits for the key of a
\* Notify that is pushing finds the lock free.
LockNeverHeldWhilePushing ==
    \A w \in Workers :
        /\ Pushing(w) => held[w] = ""
        /\ held[w] # "" => /\ pc[w] \in {"N_check", "N_put", "N_unlock"}
                           /\ held[w] = KeyOf(Head(steps[w]))
        /\ \A v \in Workers \ {w} :
              (/\ Pushing(w)
               /\ AtNotify(v)
               /\ KeyOf(Head(steps[v])) = KeyOf(Head(steps[w])))
              => LockFree(KeyOf(Head(steps[v])), v)

\* C19 witness: while one worker's Notify is still pushing, another worker
\* has taken the lock of the same key.
LockTakenDuringPush ==
    \E w, v \in Workers :
        /\ w # v
        /\ Pushing(w)
        /\ pc[v] = "N_check"
        /\ held[v] = KeyOf(Head(steps[w]))

\* Worker w's Surface.Notify returns from its push phase in this step.
ReturnsFromPush(w) == Pushing(w) /\ ~Pushing(w)' /\ pc'[w] # pc[w]

\* The last call that has returned to worker w's function.
LastEffect(w) == effects[w][Len(effects[w])]

\* C20 as stated: once Surface.Notify has persisted the notification, no
\* failure of the push (filters, conversion, streaming) makes it return an
\* error.
PushFailureNotReturned ==
    [][\A w \in Workers : ReturnsFromPush(w) => LastEffect(w)'.ok]_vars

\* C20 amended: once Surface.Notify has persisted the notification, an error
\* of fetching the target's filters or of converting the notification is
\* returned by Notify, with the notification left in storage and nothing
\* streamed; streaming itself cannot fail, and Notify returns nil exactly
\* when it has streamed the notification.
PushFailureReturnedRowKept ==
    [][\A w \in Workers :
          ReturnsFromPush(w)
          => /\ LastEffect(w)'.op = "Notify"
             /\ LastEffect(w)'.ok <=> pc[w] = "N_stream"
             /\ LastEffect(w)'.ok <=> stream' # stream
             /\ notifs' = notifs
             /\ \E x \in notifs : x.id = made[w]]_vars

\* C20 witness: a Notify that stored its notification has returned an error
\* from its push phase, and the notification was not streamed.
PushFailedAfterPersist ==
    \E w \in Workers :
        /\ pc[w] \in {"run", "hreturn", "done"}
        /\ effects[w] # <<>>
        /\ LastEffect(w).op = "Notify"
        /\ ~LastEffect(w).ok
        /\ made[w] # 0
        /\ \E x \in notifs : x.id = made[w]
        /\ \A i \in DOMAIN stream : stream[i].id # made[w]

\* The stored notifications of the tuple of the Notify call worker w is in.
StoredForCall(w) ==
    LET s == Head(steps[w])
    IN  Matching(s.arg, AccountID(s.tgt), AccountID(s.org), s.val)

\* Worker w's Notify leaves its existence check in this step.
LeavesCheck(w) == pc[w] = "N_check" /\ pc'[w] # "N_check"

HasStatusSegment(key) ==
    \E i \in 1..(Len(key) - 9) : SubSeq(key, i, i + 9) = "&statusID="

\* The key built from the four fields as the source builds it, segment by
\* segment.
ExpectedKey(ntype, target, origin, statusID) ==
    LET base == "notification:?type=" \o ntype \o "&target="
                    \o AccountURI(target) \o "&origin=" \o AccountURI(origin)
    IN  IF statusID = "" THEN base ELSE base \o "&statusID=" \o statusID

\* C22: getNotifyLockURI is a function of (notification type, target
\* account, origin account, status ID): the key a worker holds is the key of
\* the four fields of its call, two workers whose calls have the same four
\* fields use the same key, and the key has a status segment exactly when
\* the status ID is not empty.
LockKeyIsFunctionOfFourFields ==
    /\ \A w \in Workers :
          held[w] # ""
          => LET s == Head(steps[w])
             IN  /\ held[w] = ExpectedKey(s.arg, s.tgt, s.org, s.val)
                 /\ HasStatusSegment(held[w]) <=> s.val # ""
    /\ \A w, v \in Workers :
          (/\ AtNotify(w)
           /\ AtNotify(v)
           /\ <<Head(steps[w]).arg, Head(steps[w]).tgt, Head(steps[w]).org,
                Head(steps[w]).val>>
                = <<Head(steps[v]).arg, Head(steps[v]).tgt, Head(steps[v]).org,
                    Head(steps[v]).val>>)
          => KeyOf(Head(steps[w])) = KeyOf(Head(steps[v]))

\* C22 witness: one worker holds the key of a call without a status ID while
\* another holds the key of a call with one.
KeysWithAndWithoutStatus ==
    \E w, v \in Workers :
        /\ held[w] # ""
        /\ Head(steps[w]).val = ""
        /\ ~HasStatusSegment(held[w])
        /\ held[v] # ""
        /\ Head(steps[v]).val # ""
        /\ HasStatusSegment(held[v])

\* ------------------------------------------------ properties: invalidation

\* Worker w's invalidation runs in this step.
Invalidates(w) ==
    /\ At(w, "surface.invalidateStatusFromTimelines")
    /\ effects'[w] # effects[w]

\* C23: invalidateStatusFromTimelines is idempotent and recomputes nothing:
\* it leaves no prepared item of the status in any timeline, prepares none,
\* leaves the items of other statuses as they were, and a second invalidation
\* of the same status right after it would change nothing.
InvalidationIsIdempotent ==
    [][\A w \in Workers :
          Invalidates(w)
          => LET id == Head(steps[w]).val
             IN  /\ \A x \in prepared' : x[2] # id
                 /\ prepared' \subseteq prepared
                 /\ \A x \in prepared : x[2] # id => x \in prepared'
                 /\ Unprepare(prepared', id) = prepared']_vars

\* C23 witness: both workers have invalidated the same status, the second
\* with nothing of it left to unprepare, and an item of another status is
\* still prepared.
InvalidatedTwice ==
    \E w, v \in Workers :
        /\ w # v
        /\ pc[w] = "done"
        /\ pc[v] = "done"
        /\ Called(w, "surface.invalidateStatusFromTimelines")
        /\ Called(v, "surface.invalidateStatusFromTimelines")
        /\ env[w].st = env[v].st
        /\ \A x \in prepared : x[2] # env[w].st
        /\ prepared # {}

\* -------------------------------------- properties: invalidation by handler

\* The status IDs handler h invalidates for message e.
Invalidated(h, e) ==
    CASE h \in {"fediAPI.CreateStatus", "clientAPI.CreateStatus"} ->
            IF "reply" \in e.flags THEN {ParentID(e.st)} ELSE {}
      [] h \in {"fediAPI.DeleteStatus", "clientAPI.DeleteStatus"} ->
            IF "reply" \in e.flags THEN {ParentID(e.st)} ELSE {}
      [] h \in {"fediAPI.CreateLike", "clientAPI.CreateLike",
                "clientAPI.UndoFave", "fediAPI.CreatePollVote",
                "clientAPI.CreatePollVote", "fediAPI.UpdateStatus",
                "clientAPI.UpdateStatus"} -> {e.st}
      [] h \in {"fediAPI.CreateAnnounce", "clientAPI.CreateAnnounce",
                "clientAPI.UndoAnnounce"} -> {BoostOfID(e.st)}
      [] OTHER -> {}

\* The status IDs whose counts or content the event of message e changes.
Affected(h, e) ==
    Invalidated(h, e)
        \cup (IF /\ h \in {"fediAPI.DeleteStatus", "clientAPI.DeleteStatus"}
                 /\ "boost" \in e.flags
              THEN {BoostOfID(e.st)} ELSE {})

\* The handlers of the events that change a status's counts or content.
MutatingHandlers ==
    {"fediAPI.CreateStatus", "clientAPI.CreateStatus", "fediAPI.DeleteStatus",
     "clientAPI.DeleteStatus", "fediAPI.CreateLike", "clientAPI.CreateLike",
     "clientAPI.UndoFave", "fediAPI.CreatePollVote", "clientAPI.CreatePollVote",
     "fediAPI.UpdateStatus", "clientAPI.UpdateStatus", "fediAPI.CreateAnnounce",
     "clientAPI.CreateAnnounce", "clientAPI.UndoAnnounce"}

\* Worker w's handler has returned nil with the mutation in effect: the
\* status was created, enriched or refreshed by this worker.
MutationDone(w) ==
    /\ Processed(w)
    /\ invoked[w] # <<>>
    /\ invoked[w][1] \in MutatingHandlers
    /\ result[w] = Nil
    /\ "raced" \notin env[w].flags
    /\ \A i \in DOMAIN effects[w] :
          effects[w][i].op = "federate.EnrichAnnounce" => effects[w][i].ok

\* The number of invalidations of status id worker w's handler has made.
InvalidationsOf(w, id) ==
    Cardinality({i \in DOMAIN effects[w] :
                    /\ effects[w][i].op = "surface.invalidateStatusFromTimelines"
                    /\ effects[w][i].val = id})

StatusIDs(e) == {e.st, ParentID(e.st), BoostOfID(e.st)}

NotifyEffects(w) == SelectSeq(effects[w], LAMBDA x : x.op = "Notify")

\* The local recipients of the poll-close notifications of message e: the
\* author, then the voters in the order of their votes.
PollRecipients(e) ==
    (IF IsLocal(e.org) THEN <<e.org>> ELSE <<>>)
        \o SelectSeq(PollVoters(e.st), LAMBDA v : IsLocal(v))

\* Worker w has processed an Update of a status.
UpdateProcessed(w) ==
    /\ Processed(w)
    /\ invoked[w] \in {<<"fediAPI.UpdateStatus">>, <<"clientAPI.UpdateStatus">>}
    /\ result[w] # Panic

\* Worker w's notifyPollClose got the status and its votes.
VotesFetched(w) ==
    /\ \E i \in DOMAIN effects[w] : Succeeded(w, i, "DB.PopulateStatus")
    /\ \E i \in DOMAIN effects[w] : Succeeded(w, i, "DB.GetPollVotes")

VisibleReturned(w) ==
    pc[w] = "done" /\ invoked[w] = <<"Processor.notifVisible">>

\* The origin account / the status of the call's notification is absent or
\* visible to the target (the check answers (true, nil)).
OriginVisible(e) == e.org = "" \/ e.flags \cap {"accountHidden", "accountError"} = {}

StatusVisible(e) == e.st = "" \/ e.flags \cap {"statusHidden", "statusError"} = {}

\* A visibility check that notifVisible makes for e returns an error: the
\* account check, or the status check once the account check has passed.
CheckFails(e) ==
    \/ e.org # "" /\ "accountError" \in e.flags
    \/ OriginVisible(e) /\ e.st # "" /\ "statusError" \in e.flags

\* C26: notifVisible returns true exactly when (the notification has no
\* origin account or the origin account is visible to the target) and (it
\* has no status or the status is visible to the target); a sign-up
\* notification is visible without any check; an error of a visibility check
\* gives (false, error).
NotifVisibleIsConjunction ==
    \A w \in Workers :
        VisibleReturned(w)
        => LET e == env[w]
               r == result[w]
           IN  IF e.model = "admin.sign_up"
               THEN r.msg = <<"true">> /\ ~r.err
               ELSE /\ r.msg = <<"true">> <=> (OriginVisible(e) /\ StatusVisible(e))
                    /\ r.err <=> CheckFails(e)
                    /\ r.err => r.msg = <<"false">>

\* C26 witness: a sign-up notification whose origin account is not visible
\* to the target was found visible.
SignupVisibleUnchecked ==
    \E w \in Workers :
        /\ VisibleReturned(w)
        /\ env[w].model = "admin.sign_up"
        /\ env[w].org # ""
        /\ "accountHidden" \in env[w].flags
        /\ result[w].msg = <<"true">>
        /\ ~result[w].err

\* -------------------------------------------------- properties: no entries

\* The storage has no row for worker w's first call op, which has returned
\* db.ErrNoEntries.
LookupMissed(w, op) ==
    /\ "noEntries" \in env[w].flags
    /\ Failed(w, 1, op)

\* Worker w's function has returned.
Ended(w) == pc[w] \in {"hreturn", "done"}

\* DeleteStatus of either origin, when populating the status finds no
\* entries, returns no error for it and makes its four purges and the wipe.
DeleteStatusGoesOnWithoutEntries ==
    \A w \in Workers :
        (InHandler(w) /\ LookupMissed(w, "DB.PopulateStatus"))
        => /\ ~hret[w].err
           /\ Ended(w)
              => /\ Cardinality({i \in DOMAIN effects[w] :
                                   effects[w][i].op = "Queue.Delete"}) = 4
                 /\ Called(w, "utils.wipeStatus")

\* notifySignup, when the instance has no moderators, returns nil at once.
SignupWithoutModeratorsIsNil ==
    \A w \in Workers :
        (invoked[w] = <<"Surface.notifySignup">>
           /\ LookupMissed(w, "DB.GetInstanceModerators"))
        => /\ Ended(w)
           /\ hret[w] = Nil
           /\ Len(effects[w]) = 1
           /\ pc[w] = "done" => result[w] = Nil

\* notifyFollow, when no follow-request notification is found, or when the
\* one found is gone by the time it is deleted, goes on to Notify.
FollowGoesOnWithoutRequest ==
    \A w \in Workers :
        invoked[w] = <<"Surface.notifyFollow">>
        => /\ (Succeeded(w, 2, "DB.GetNotification") /\ prev[w] = 0 /\ Ended(w))
              => (Len(effects[w]) = 3 /\ effects[w][3].op = "Notify")
           /\ (Failed(w, 3, "DB.DeleteNotificationByID")
                 /\ effects[w][3].arg = "ErrNoEntries")
              => /\ ~(Len(effects[w]) = 3 /\ hret[w].err)
                 /\ Ended(w)
                    => (Len(effects[w]) = 4 /\ effects[w][4].op = "Notify")

\* Notify, when its existence check finds no row and gives no other error,
\* goes on to insert the notification.
NotifyCreatesWhenAbsent ==
    \A w \in Workers :
        (/\ pc[w] = "N_check"
         /\ pc'[w] # "N_check"
         /\ Matching(Head(steps[w]).arg, AccountID(Head(steps[w]).tgt),
                     AccountID(Head(steps[w]).org), Head(steps[w]).val) = {}
         /\ effects'[w] = effects[w])
        => pc'[w] = "N_put"

\* C27: a "no entries" answer of the storage is never returned as a failure:
\* DeleteStatus goes on to purge and wipe when populating the status finds
\* nothing, notifyFollow goes on when the previous follow-request notification
\* is absent or already deleted, notifySignup returns nil when there are no
\* moderators, and Notify takes an absent notification as the signal to
\* create one.
NoEntriesIsNeverAFailure ==
    /\ [](/\ DeleteStatusGoesOnWithoutEntries
          /\ SignupWithoutModeratorsIsNil
          /\ FollowGoesOnWithoutRequest)
    /\ [][NotifyCreatesWhenAbsent]_vars

\* C27 witness: a DeleteStatus whose status had no entries in storage has
\* returned after wiping the status.
DeletedStatusWithoutEntries ==
    \E w \in Workers :
        /\ InHandler(w)
        /\ LookupMissed(w, "DB.PopulateStatus")
        /\ pc[w] = "done"
        /\ result[w] = Nil
        /\ \E i \in DOMAIN effects[w] : Succeeded(w, i, "utils.wipeStatus")

\* notifySignup has returned nil for an instance without moderators.
SignupReturnedNilWithoutModerators ==
    \E w \in Workers :
        /\ invoked[w] = <<"Surface.notifySignup">>
        /\ LookupMissed(w, "DB.GetInstanceModerators")
        /\ pc[w] = "done"

\* notifyFollow has notified although the follow-request notification it
\* found was deleted before it could delete it.
FollowNotifiedAfterRequestGone ==
    \E w \in Workers :
        /\ invoked[w] = <<"Surface.notifyFollow">>
        /\ Failed(w, 3, "DB.DeleteNotificationByID")
        /\ effects[w][3].arg = "ErrNoEntries"
        /\ Succeeded(w, 4, "Notify")
        /\ pc[w] = "done"
        /\ result[w] = Nil

\* notifyFollow has notified although there was no follow-request
\* notification.
FollowNotifiedWithoutRequest ==
    \E w \in Workers :
        /\ invoked[w] = <<"Surface.notifyFollow">>
        /\ Succeeded(w, 2, "DB.GetNotification")
        /\ prev[w] = 0
        /\ Succeeded(w, 3, "Notify")
        /\ pc[w] = "done"

\* ------------------------------------------------------ properties: replies

\* Worker w runs CreateStatus for a reply whose dereference it made and which
\* no other worker had created.
CreatedReply(w) ==
    /\ invoked[w] = <<"fediAPI.CreateStatus">>
    /\ env[w].inline
    /\ "reply" \in env[w].flags
    /\ "raced" \notin env[w].flags
    /\ Succeeded(w, 1, "federate.RefreshStatus")

\* The positions of worker w's calls of op.
PositionsOf(w, op) == {i \in DOMAIN effects[w] : effects[w][i].op = op}

\* The mention of the replied-to status's author is notified when the reply
\* mentions, the thread is not muted and the calls leading there succeed: the
\* timelining, the population of that mention (the second) and the mute check.
MentionDue(w) ==
    /\ "mentions" \in env[w].flags
    /\ "muted" \notin env[w].flags
    /\ Succeeded(w, 4, "surface.timelineStatus")
    /\ Succeeded(w, 6, "DB.PopulateMention")
    /\ Succeeded(w, 7, "DB.IsThreadMutedByAccount")

\* C28: for a remote reply to a local status S that this worker newly
\* created, federation-origin CreateStatus has persisted the reply before it
\* invalidates S, invalidates S (once) before it timelines and notifies,
\* notifies the mention of S's author (once, the author only) when it is due,
\* goes on when the counter update, the timelining or a notification fails,
\* and returns nil.
ReplyPersistedInvalidatedNotified ==
    \A w \in Workers :
        CreatedReply(w)
        => /\ env[w].st \in statuses
           /\ ~hret[w].err
           /\ \A i \in PositionsOf(w, "surface.invalidateStatusFromTimelines") :
                 /\ i = 3
                 /\ effects[w][i].val = ParentID(env[w].st)
           /\ \A i \in DOMAIN effects[w] :
                 effects[w][i].op \in {"surface.timelineStatus",
                                       "DB.PopulateMention", "Notify"}
                 => 3 \in PositionsOf(w, "surface.invalidateStatusFromTimelines")
           /\ \A i \in PositionsOf(w, "Notify") :
                 /\ effects[w][i].arg = "mention"
                 /\ effects[w][i].tgt = env[w].tgt
                 /\ effects[w][i].org = env[w].org
                 /\ effects[w][i].val = env[w].st
           /\ Cardinality(PositionsOf(w, "Notify")) <= 1
           /\ Ended(w)
              => /\ hret[w] = Nil
                 /\ PositionsOf(w, "utils.incrementStatusesCount") = {2}
                 /\ PositionsOf(w, "surface.invalidateStatusFromTimelines") = {3}
                 /\ PositionsOf(w, "surface.timelineStatus") = {4}
                 /\ PositionsOf(w, "Notify") # {} <=> MentionDue(w)

\* C28 witness: a reply whose counter update failed has been processed: the
\* parent was invalidated, the author's mention notified, nil returned.
ReplyProcessedAfterCounterFailure ==
    \E w \in Workers :
        /\ CreatedReply(w)
        /\ pc[w] = "done"
        /\ result[w] = Nil
        /\ Failed(w, 2, "utils.incrementStatusesCount")
        /\ Succeeded(w, 3, "surface.invalidateStatusFromTimelines")
        /\ Failed(w, 5, "DB.PopulateMention")
        /\ Succeeded(w, 8, "Notify")
        /\ \E x \in notifs : x.ntype = "mention" /\ x.status = env[w].st

\* ------------------------------------------------ properties: the two tables

\* The dispatcher of worker w's message found no case for it.
Unhandled(w) ==
    /\ invoked[w] = <<>>
    /\ result[w] = UnhandledError(env[w].verb, env[w].obj)

\* The pairs the claim names as handled for clients only.
ClientOnlyPairs ==
    {<<"Create", "Profile">>, <<"Accept", "Profile">>, <<"Update", "Flag">>,
     <<"Undo", "Follow">>, <<"Undo", "Block">>, <<"Undo", "Like">>,
     <<"Undo", "Announce">>, <<"Reject", "Follow">>, <<"Reject", "Profile">>,
     <<"Flag", "Profile">>}

\* The account handlers of ProcessFromClientAPI.
AccountHandler(verb) ==
    CASE verb = "Create" -> "clientAPI.CreateAccount"
      [] verb = "Update" -> "clientAPI.UpdateAccount"
      [] verb = "Accept" -> "clientAPI.AcceptAccount"
      [] verb = "Reject" -> "clientAPI.RejectAccount"
      [] verb = "Delete" -> "clientAPI.DeleteAccount"
      [] verb = "Move"   -> "clientAPI.MoveAccount"

\* C29: the two dispatch tables differ: ProcessFromFediAPI gives the
\* unhandled error for every Undo, Reject and Flag envelope and for
\* Create/Profile, Accept/Profile and Update/Flag, which ProcessFromClientAPI
\* handles; Create/Flag is handled by ProcessFromFediAPI and unhandled in
\* ProcessFromClientAPI; ProcessFromClientAPI gives Person the handler of
\* Profile for Create, Update, Accept, Reject, Delete and Move, and no handler
\* for Flag.
DispatchTablesDiffer ==
    \A w \in Workers :
        Processed(w)
        => LET e == env[w]
           IN  /\ (e.origin = "fedi" /\ e.verb \in {"Undo", "Reject", "Flag"})
                  => Unhandled(w)
               /\ <<e.verb, e.obj>> \in ClientOnlyPairs
                  => IF e.origin = "fedi" THEN Unhandled(w)
                     ELSE invoked[w] # <<>>
               /\ (e.verb = "Create" /\ e.obj = "Flag")
                  => IF e.origin = "fedi"
                     THEN invoked[w] = <<"fediAPI.CreateFlag">>
                     ELSE Unhandled(w)
               /\ (e.origin = "client" /\ e.obj \in {"Profile", "Person"}
                     /\ e.verb \in {"Create", "Update", "Accept", "Reject",
                                    "Delete", "Move"})
                  => Head(invoked[w]) = AccountHandler(e.verb)
               /\ (e.origin = "client" /\ e.verb = "Flag")
                  => IF e.obj = "Profile"
                     THEN Head(invoked[w]) = "clientAPI.ReportAccount"
                     ELSE Unhandled(w)

\* C29 witness: ProcessFromClientAPI has returned the unhandled error for a
\* Flag of a Person.
FlagOfPersonUnhandled ==
    \E w \in Workers :
        /\ Processed(w)
        /\ env[w].origin = "client"
        /\ env[w].verb = "Flag"
        /\ env[w].obj = "Person"
        /\ Unhandled(w)
        /\ result[w].err

\* ------------------------------------------------ properties: interactions

\* Worker w runs notifyFave or notifyAnnounce.
Interacting(w) ==
    invoked[w] \in {<<"Surface.notifyFave">>, <<"Surface.notifyAnnounce">>}

\* The call is one for which nothing is to be notified: the actor's own
\* status, a remote author, a muted thread, or no boost.
NothingToNotify(e) ==
    \/ e.tgt = e.org
    \/ IsRemote(e.tgt)
    \/ "muted" \in e.flags
    \/ e.obj = "Surface.notifyAnnounce" /\ "boost" \notin e.flags

FaveNotifiedOnce ==
    \E w \in Workers :
        /\ invoked[w] = <<"Surface.notifyFave">>
        /\ ~NothingToNotify(env[w])
        /\ pc[w] = "done"
        /\ result[w] = Nil
        /\ PositionsOf(w, "Notify") = {3}
        /\ made[w] # 0

\* ------------------------------------------------ properties: poll votes

\* Worker w runs client-origin CreatePollVote and has populated the vote and
\* its poll.
VotePopulated(w) ==
    /\ invoked[w] = <<"clientAPI.CreatePollVote">>
    /\ Succeeded(w, 1, "DB.PopulatePollVote")
    /\ Succeeded(w, 2, "DB.PopulatePoll")

\* C31: client-origin CreatePollVote, once the vote and its poll are
\* populated, invalidates the status's timeline entry and then makes exactly
\* one federation send: UpdateStatus when the poll's status is local,
\* CreatePollVote when it is remote, never both and never neither.
PollVoteFederatedOnce ==
    \A w \in Workers :
        VotePopulated(w)
        => LET sends == PositionsOf(w, "federate.UpdateStatus")
                          \cup PositionsOf(w, "federate.CreatePollVote")
           IN  /\ sends \subseteq {4}
               /\ sends # {}
                  => /\ Succeeded(w, 3, "surface.invalidateStatusFromTimelines")
                     /\ effects[w][3].val = env[w].st
                     /\ effects[w][4].op = (IF "local" \in env[w].flags
                                            THEN "federate.UpdateStatus"
                                            ELSE "federate.CreatePollVote")
               /\ Ended(w) => (sends = {4} /\ Len(effects[w]) = 4 /\ hret[w] = Nil)

\* C31 witness: a vote in a remote poll has been processed: the status was
\* invalidated and the vote sent to its origin, which failed.
RemotePollVoteFederated ==
    \E w \in Workers :
        /\ VotePopulated(w)
        /\ "local" \notin env[w].flags
        /\ pc[w] = "done"
        /\ result[w] = Nil
        /\ Failed(w, 4, "federate.CreatePollVote")

\* ------------------------------------------------ properties: approval

\* C32: client-origin AcceptAccount sends the sign-up-approved email only
\* after DB.UpdateUser has persisted the approval; when the update fails the
\* handler returns its error and sends no email; when it succeeds the email
\* is sent and the handler returns nil whether or not the email fails.
ApprovalEmailOnlyAfterUpdate ==
    \A w \in Workers :
        invoked[w] = <<"clientAPI.AcceptAccount">>
        => /\ \A i \in PositionsOf(w, "surface.emailUserSignupApproved") :
                 i = 2 /\ Succeeded(w, 1, "DB.UpdateUser")
           /\ Failed(w, 1, "DB.UpdateUser")
              => /\ Len(effects[w]) = 1
                 /\ Ended(w)
                 /\ hret[w] = Err(<<"DB.UpdateUser">>)
           /\ (Succeeded(w, 1, "DB.UpdateUser") /\ Ended(w))
              => /\ PositionsOf(w, "surface.emailUserSignupApproved") = {2}
                 /\ hret[w] = Nil

\* C32 witness: an approval whose user update failed has returned the error
\* without sending the email.
ApprovalFailedWithoutEmail ==
    \E w \in Workers :
        /\ invoked[w] = <<"clientAPI.AcceptAccount">>
        /\ pc[w] = "done"
        /\ Failed(w, 1, "DB.UpdateUser")
        /\ result[w].err
        /\ PositionsOf(w, "surface.emailUserSignupApproved") = {}

\* ------------------------------------------------ properties: the key lock

\* Worker w is in the part of Notify that runs under the key lock.
Locked(w) == pc[w] \in {"N_check", "N_put", "N_unlock"}

\* Worker w is in a Notify call: waiting for the key or past it.
Notifying(w) == AtNotify(w) \/ InNotify(w)

\* A worker holds a key only between the lock and the unlock of its Notify
\* call, so none is held once the call has returned, and no two workers
\* hold the same key.
NoLeakedLock ==
    \A w \in Workers :
        /\ held[w] # "" => Locked(w)
        /\ \A v \in Workers \ {w} : held[w] # "" => held[v] # held[w]

\* A key is taken by a worker that holds none and is released by a step of
\* its holder alone: one release for one lock.
ReleasedOnceByHolder ==
    \A w \in Workers :
        /\ (held[w] = "" /\ held'[w] # "") => (AtNotify(w) /\ pc'[w] = "N_check")
        /\ (held[w] # "" /\ held'[w] # held[w])
           => (held'[w] = "" /\ Locked(w) /\ ~Locked(w)')

\* C33: Notify releases the key lock exactly once on every return path, a
\* worker never holds more than one key lock, and under fair scheduling every
\* Notify call, blocked on its key or not, gets the key and returns.
LockReleasedOnceAndCallsReturn ==
    /\ []NoLeakedLock
    /\ [][ReleasedOnceByHolder]_vars
    /\ \A w \in Workers : Notifying(w) ~> ~Notifying(w)

\* C33 witness: a Notify call waits for the key that another call holds.
BlockedOnHeldKey ==
    \E w \in Workers : \E v \in Workers \ {w} :
        /\ AtNotify(w)
        /\ ~IsRemote(Head(steps[w]).tgt)
        /\ held[v] = KeyOf(Head(steps[w]))
        /\ Locked(v)

\* ------------------------------------------------ properties: the push

\* The pushes of the notification with the id.
PushesOf(id) == {i \in DOMAIN stream : stream[i].id = id}

\* Worker w is in the part of Notify after its own insert.
AfterInsert(w) == pc[w] \in {"N_unlock", "N_filters", "N_convert", "N_stream"}

\* Every pushed notification is a stored one's, pushed once, and a call is
\* past the insert only with the row it inserted itself, not yet pushed.
PushedAtMostOnce ==
    /\ \A i \in DOMAIN stream :
          /\ stream[i].id \in 1..(nextID - 1)
          /\ PushesOf(stream[i].id) = {i}
    /\ \A w \in Workers :
          AfterInsert(w)
          => /\ made[w] \in 1..(nextID - 1)
             /\ PushesOf(made[w]) = {}
             /\ \A v \in Workers \ {w} : made[v] # made[w]

\* A push is made by the call that inserted the row, and a call that finds
\* the row present returns without inserting or pushing.
PushOnlyByInserter ==
    /\ stream' # stream
       => \E w \in Workers :
             /\ pc[w] = "N_stream"
             /\ stream' = Append(stream, [account |-> Head(steps[w]).tgt,
                                          id |-> made[w]])
    /\ \A w \in Workers :
          (/\ pc[w] = "N_check"
           /\ pc'[w] # "N_check"
           /\ StoredForCall(w) # {})
          => /\ ~InNotify(w)'
             /\ UNCHANGED <<stream, notifs, made>>

\* C34: for concurrent or repeated Notify calls on one tuple the realtime
\* push happens at most once per persisted notification and only from the
\* call that inserted it; a call that finds the notification present never
\* pushes.
PushOncePerNotificationByInserter ==
    /\ []PushedAtMostOnce
    /\ [][PushOnlyByInserter]_vars

\* C34 witness: two calls for one tuple have returned nil with one row
\* stored and one push made.
TwoCallsOnePush ==
    \E w \in Workers : \E v \in Workers \ {w} :
        /\ pc[w] = "done" /\ pc[v] = "done"
        /\ invoked[w] = <<"Surface.Notify">>
        /\ env[w] = env[v]
        /\ result[w] = Nil /\ result[v] = Nil
        /\ Cardinality(notifs) = 1
        /\ Len(stream) = 1

\* ------------------------------------------------ properties: check errors

\* Worker w's Notify call returns a failure in this step.
NotifyFails(w) ==
    /\ Len(effects'[w]) = Len(effects[w]) + 1
    /\ LastEffect(w)'.op = "Notify"
    /\ ~LastEffect(w)'.ok

\* A failed existence check ends the call: the error is the call's, nothing
\* is inserted or pushed, the lock is released.
CheckErrorReturned ==
    \A w \in Workers :
        (LeavesCheck(w) /\ NotifyFails(w))
        => /\ ~InNotify(w)'
           /\ held'[w] = ""
           /\ UNCHANGED <<notifs, nextID, stream, made>>

\* A row is inserted by a call that is past its check, and only one row.
InsertedAfterCheck ==
    notifs' # notifs
    => \E w \in Workers :
          /\ pc[w] = "N_put"
          /\ notifs' = notifs \cup {NewNotification(Head(steps[w]))}

\* A call is at its insert only when no row for its tuple is stored.
AtInsertOnlyWhenAbsent ==
    \A w \in Workers : pc[w] = "N_put" => StoredForCall(w) = {}

\* C35: when Notify's existence check fails with an error other than "no
\* entries", Notify returns that error, inserts nothing, pushes nothing and
\* releases the lock; a notification is inserted only after the check has
\* reported absence.
CheckErrorInsertsNothing ==
    /\ [][CheckErrorReturned /\ InsertedAfterCheck]_vars
    /\ []AtInsertOnlyWhenAbsent

\* C35 witness: a handler's second Notify call for a tuple has failed after
\* its first had inserted the row, which nothing deletes: the existence
\* check failed, and the row is the only one for the tuple.
CheckFailedWithRowStored ==
    \E w \in Workers :
        /\ Len(NotifyEffects(w)) = 2
        /\ NotifyEffects(w)[1].ok
        /\ ~NotifyEffects(w)[2].ok
        /\ [NotifyEffects(w)[2] EXCEPT !.ok = TRUE] = NotifyEffects(w)[1]
        /\ made[w] # 0
        /\ Cardinality({x \in notifs : x.target = AccountID("bob")}) = 1

\* ------------------------------------------------ properties: failed refresh

\* Worker w runs federation-origin UpdateStatus and its RefreshStatus has
\* returned an error and no status.
RefreshFailed(w) ==
    /\ invoked[w] = <<"fediAPI.UpdateStatus">>
    /\ Failed(w, 1, "federate.RefreshStatus")

\* C36: federation-origin UpdateStatus never uses the result of a failed
\* refresh: when RefreshStatus returns an error and no status the handler
\* does not read a field of the missing status, so no execution goes on to
\* the invalidation, the poll-close check or the stream update with a nil
\* status.
FailedRefreshNeverRead ==
    \A w \in Workers : RefreshFailed(w) => hret[w] # Panic

\* -------------------------------------------------------- the follow counters

CounterOps ==
    {"utils.incrementFollowRequestsCount", "utils.decrementFollowRequestsCount",
     "utils.incrementFollowersCount", "utils.decrementFollowersCount",
     "utils.incrementFollowingCount", "utils.decrementFollowingCount"}

\* The counter a utils call updates, and by how much.
CounterOf(op) ==
    CASE op \in {"utils.incrementFollowRequestsCount",
                 "utils.decrementFollowRequestsCount"} -> "followRequests"
      [] op \in {"utils.incrementFollowersCount",
                 "utils.decrementFollowersCount"} -> "followers"
      [] OTHER -> "following"

DeltaOf(op) ==
    IF op \in {"utils.incrementFollowRequestsCount",
               "utils.incrementFollowersCount",
               "utils.incrementFollowingCount"} THEN 1 ELSE -1

\* The account a client-origin handler passes to the call: cMsg.Origin to
\* the following counter, cMsg.Target to the other two.
CountedAccount(e, op) == IF CounterOf(op) = "following" THEN e.org ELSE e.tgt

\* The stored state of a follow after client event ev, "" when the event is
\* not legal in the state: a request is created where there is none, a
\* pending request is accepted or rejected, and a pending request or an
\* accepted follow is undone.
FollowAfter(ev, state) ==
    CASE ev = "CreateFollowReq"     -> IF state = "none" THEN "pending" ELSE ""
      [] ev = "AcceptFollow"        -> IF state = "pending" THEN "accepted" ELSE ""
      [] ev = "RejectFollowRequest" -> IF state = "pending" THEN "none" ELSE ""
      [] ev = "UndoFollow"          -> IF state # "none" THEN "none" ELSE ""

FollowEvents ==
    {"CreateFollowReq", "AcceptFollow", "RejectFollowRequest", "UndoFollow"}

\* The client message of a follow event of pair p.
FollowMessage(ev, p) ==
    Message("client",
            CASE ev = "CreateFollowReq" -> "Create"
              [] ev = "AcceptFollow" -> "Accept"
              [] ev = "RejectFollowRequest" -> "Reject"
              [] ev = "UndoFollow" -> "Undo",
            "Follow",
            IF ev \in {"CreateFollowReq", "RejectFollowRequest"}
            THEN "FollowRequest" ELSE "Follow",
            "nil", FALSE, {}, p[2], p[1], "", FALSE)

\* The API has stored a follow event of a pair and queued its message; a
\* client worker takes it.  Events are processed one at a time.
ReceiveFollowEvent(w) ==
    /\ \A v \in Workers : pc[v] = "idle"
    /\ calls < MaxCalls
    /\ calls' = calls + 1
    /\ \E ev \in FollowEvents, p \in FollowPairs :
          /\ FollowAfter(ev, follows[p]) # ""
          /\ follows' = [follows EXCEPT ![p] = FollowAfter(ev, follows[p])]
          /\ env' = [env EXCEPT ![w] = FollowMessage(ev, p)]
    /\ pc' = [pc EXCEPT ![w] = "dispatch"]
    /\ UNCHANGED <<steps, effects, hret, result, invoked, prev, held, made,
                   notifs, nextID, stream, queues, inflight, wiped, cancelled,
                   statuses, prepared, stats, cache>>

\* A utils counter call of a client-origin handler: the counter moves by one
\* unless the call fails.
CountStep(w) ==
    /\ pc[w] = "run"
    /\ steps[w] # <<>>
    /\ env[w].origin = "client"
    /\ LET s == Head(steps[w])
           a == CountedAccount(env[w], s.op)
       IN  /\ s.op \in CounterOps
           /\ \E ok \in Outcomes(s) :
                /\ stats' = IF ok
                            THEN [stats EXCEPT
                                    ![CounterOf(s.op)][a] = @ + DeltaOf(s.op)]
                            ELSE [stats EXCEPT !["failed"][a] = @ + 1]
                /\ Returned(w, s, ok)
    /\ UNCHANGED <<env, result, invoked, prev, held, made, notifs, nextID, stream,
                   queues, inflight, wiped, calls, cancelled, statuses, prepared,
                   follows, cache>>

\* Any other call of the handler.
RunUncounted(w) ==
    /\ steps[w] # <<>>
    /\ Head(steps[w]).op \notin CounterOps
    /\ RunStep(w)

NextCount ==
    \E w \in Workers :
        \/ ReceiveFollowEvent(w)
        \/ Dispatch(w)
        \/ CountStep(w)
        \/ RunUncounted(w)
        \/ HandlerEnd(w)
        \/ DispatchReturn(w)
        \/ Finish(w)

SpecCount == Init /\ [][NextCount]_vars

\* ---------------------------------------------- properties: follow counters

\* Every follow event so far has been processed and no counter call failed.
CountedWithoutFailure ==
    /\ \A w \in Workers : pc[w] = "idle"
    /\ \A a \in Accounts : stats["failed"][a] = 0

NumberOf(state, pairs) == Cardinality({p \in pairs : follows[p] = state})

FollowsTo(a) == {p \in FollowPairs : p[2] = a}

FollowsFrom(a) == {p \in FollowPairs : p[1] = a}

\* C37: after any failure-free sequence of client-origin follow events, each
\* applied only when legal, the target's follow-requests counter equals the
\* number of pending requests, and the followers and following counters
\* equal the numbers of accepted follows; undoing a still-pending request
\* leaves followers and following alone and takes one request off the
\* counter.
CountersMatchFollows ==
    CountedWithoutFailure =>
        \A a \in Accounts :
            /\ stats["followRequests"][a] = NumberOf("pending", FollowsTo(a))
            /\ stats["followers"][a] = NumberOf("accepted", FollowsTo(a))
            /\ stats["following"][a] = NumberOf("accepted", FollowsFrom(a))

\* ----------------------------------- properties: federating an account delete

\* Worker w runs client-origin DeleteAccount.
DeletingAccount(w) == invoked[w] = <<"clientAPI.DeleteAccount">>

\* The positions of the calls to op that worker w's handler has made.
MadeAt(w, op) == {i \in DOMAIN effects[w] : effects[w][i].op = op}

TupleOf(s) == <<s.arg, AccountID(s.tgt), AccountID(s.org), s.val>>

Object(kind, populated, closing, data) ==
    [kind |-> kind, populated |-> populated, closing |-> closing, data |-> data]

\* The result of a copy function: the heap after it ran and the address it
\* returned.
Copied(h, ret) == [heap |-> h, ret |-> ret]

\* initInstance's copyF: i2 is allocated, filled from i1 and cleared, and i1
\* is returned.
copyInstance(h, i1) ==
    LET i2 == Len(h) + 1
        h2 == Append(h, [h[i1] EXCEPT !.populated = FALSE])
    IN  Copied(h2, i1)

\* initNotification's copyF
copyNotification(h, n1) ==
    LET n2 == Len(h) + 1
        h2 == Append(h, [h[n1] EXCEPT !.populated = FALSE])
    IN  Copied(h2, n2)

\* initPoll's copyF
copyPoll(h, p1) ==
    LET p2 == Len(h) + 1
        h2 == Append(h, [h[p1] EXCEPT !.populated = FALSE, !.closing = FALSE])
    IN  Copied(h2, p2)

\* structr.CacheConfig.Copy of the cache of a kind.
copyF(kind, h, a) ==
    CASE kind = "Instance"     -> copyInstance(h, a)
      [] kind = "Notification" -> copyNotification(h, a)
      [] kind = "Poll"         -> copyPoll(h, a)

\* A caller stores a model object it has built or loaded from storage, with
\* its pointer fields populated or not; the cache keeps what Copy returns.
CachePut ==
    /\ calls < MaxCalls
    /\ calls' = calls + 1
    /\ \E kind \in CacheKinds, populated \in BOOLEAN, closing \in BOOLEAN :
          /\ closing => kind = "Poll"
          /\ LET h == Append(cache.heap, Object(kind, populated, closing, 0))
                 c == copyF(kind, h, Len(h))
             IN  cache' = [heap |-> c.heap,
                           stored |-> [cache.stored EXCEPT ![kind] = c.ret],
                           handed |-> cache.handed \cup {Len(h)}]
    /\ UNCHANGED <<pc, env, steps, effects, hret, result, invoked, prev, held,
                   made, notifs, nextID, stream, queues, inflight, wiped,
                   cancelled, statuses, prepared, follows, stats>>

\* A caller loads the entry of a cache; it gets what Copy returns.
CacheGet ==
    /\ calls < MaxCalls
    /\ calls' = calls + 1
    /\ \E kind \in CacheKinds :
          /\ cache.stored[kind] # 0
          /\ LET c == copyF(kind, cache.heap, cache.stored[kind])
             IN  cache' = [heap |-> c.heap,
                           stored |-> cache.stored,
                           handed |-> cache.handed \cup {c.ret}]
    /\ UNCHANGED <<pc, env, steps, effects, hret, result, invoked, prev, held,
                   made, notifs, nextID, stream, queues, inflight, wiped,
                   cancelled, statuses, prepared, follows, stats>>

\* A caller populates the pointer fields of an object it holds and changes a
\* column of it.
CallerMutates ==
    /\ \E a \in cache.handed :
          /\ cache.heap[a].data = 0
          /\ cache' = [cache EXCEPT
                         !.heap[a] = [@ EXCEPT !.populated = TRUE, !.data = 1]]
    /\ UNCHANGED <<pc, env, steps, effects, hret, result, invoked, prev, held,
                   made, notifs, nextID, stream, queues, inflight, wiped, calls,
                   cancelled, statuses, prepared, follows, stats>>

NextCache == CachePut \/ CacheGet \/ CallerMutates

SpecCache == Init /\ [][NextCache]_vars

\* ------------------------------------------------ properties: cache copies

\* C40: every struct cache's copy function returns a new object distinct
\* from its argument, with the separately populated pointer fields cleared
\* and, for polls, Closing reset to false: the entry a cache stores is no
\* object a caller holds, it has no pointer field populated and is not
\* closing, and no caller's mutation changes it.  This holds for every
\* cache, the Instance cache included.
CacheEntriesNeverAliased ==
    \A kind \in CacheKinds :
        LET a == cache.stored[kind]
        IN  a # 0 =>
              /\ a \notin cache.handed
              /\ ~cache.heap[a].populated
              /\ ~cache.heap[a].closing
              /\ cache.heap[a].data = 0

====
